---- MODULE Spec2Model ----
(***************************************************************************)
(* A model of the in-memory vector index of TubeSage                       *)
(* (src/server/services/vector_db.py, class VectorDatabase), of the        *)
(* transcript chunker (src/server/agents/text_chunker.py, TextChunker)     *)
(* of the search agent (src/server/agents/search_agent.py, SearchAgent),   *)
(* which reads the index, of the embedder that is to fill it               *)
(* (src/server/agents/vector_embedder.py, VectorEmbedder) and of the       *)
(* event loop the agents' coroutines run on.                               *)
(*                                                                         *)
(* A Python dict is a sequence of <<key, value>> entries in insertion      *)
(* order: assigning to a key that is present keeps the key's place,        *)
(* assigning to a new key appends it, pop deletes it.                      *)
(*                                                                         *)
(* A vector is a tuple of integers.  A cosine similarity dot/(|a|*|b|) is  *)
(* kept exactly, as the sign and the reduced fraction of its square        *)
(* (dot^2 / (|a|^2 * |b|^2)): two similarities are equal iff their         *)
(* records are equal, and SimGE orders them as the numbers are ordered.    *)
(***************************************************************************)
EXTENDS Integers, Sequences, FiniteSets, TLC

VARIABLES
    ctor_dimension, \* the dimension VectorDatabase.__init__ was called with
    dimension,      \* self.dimension
    vectors,        \* self.vectors   (dict: id -> vector)
    metadata,       \* self.metadata  (dict: id -> metadata dict)
    index_dirty,    \* self.index_dirty
    file,           \* what is stored at the snapshot path
    chunker,        \* the TextChunker: chunk_size, chunk_overlap, separators
    task,           \* the task handed to an agent's process_task
    agent,          \* the SearchAgent: max_results, thresholds, models
    embedder,       \* the VectorEmbedder: its attributes
    loop,           \* the event loop: the coroutines and the one running
    splitting,      \* the locals of the _split_by_characters call in progress
    last            \* the last call made and its outcome

vars == <<ctor_dimension, dimension, vectors, metadata, index_dirty, file,
          chunker, task, agent, embedder, loop, splitting, last>>

None == "None"

(***************************************************************************)
(* Python dicts                                                            *)
(***************************************************************************)
EmptyDict == <<>>

DictKeys(d) == [i \in 1..Len(d) |-> d[i][1]]

DictKeySet(d) == {d[i][1] : i \in 1..Len(d)}

DictHas(d, k) == \E i \in 1..Len(d) : d[i][1] = k

\* the place of a key in a dict: its insertion order
Pos(d, k) == CHOOSE i \in 1..Len(d) : d[i][1] = k

DictGet(d, k, default) ==
    IF DictHas(d, k)
    THEN d[CHOOSE i \in 1..Len(d) : d[i][1] = k][2]
    ELSE default

DictSet(d, k, v) ==
    IF DictHas(d, k)
    THEN [i \in 1..Len(d) |-> IF d[i][1] = k THEN <<k, v>> ELSE d[i]]
    ELSE Append(d, <<k, v>>)

DictPop(d, k) == SelectSeq(d, LAMBDA e : e[1] # k)

(***************************************************************************)
(* A metadata dict is a function from its keys to its values;              *)
(* m.get(key) is None for a key m does not have.                           *)
(***************************************************************************)
EmptyMeta == [k \in {} |-> None]

MetaGet(m, key) == IF key \in DOMAIN m THEN m[key] ELSE None

(***************************************************************************)
(* Exact arithmetic for similarities                                       *)
(***************************************************************************)
RECURSIVE Gcd(_, _)
Gcd(a, b) == IF b = 0 THEN a ELSE Gcd(b, a % b)

\* the number s * sqrt(p / q), p/q in lowest terms, q > 0
SignedRoot(num, sq_den) ==
    IF num = 0
    THEN [s |-> 0, p |-> 0, q |-> 1]
    ELSE LET g == Gcd(num * num, sq_den)
         IN  [s |-> IF num < 0 THEN -1 ELSE 1,
              p |-> (num * num) \div g,
              q |-> sq_den \div g]

\* the rational n / d, d > 0, in the same representation
Rational(n, d) == SignedRoot(n, d * d)

SimGE(a, b) == a.s * a.p * b.q >= b.s * b.p * a.q

SimGT(a, b) == a.s * a.p * b.q > b.s * b.p * a.q

RECURSIVE Dot(_, _)
Dot(a, b) == IF Len(a) = 0 THEN 0 ELSE a[1] * b[1] + Dot(Tail(a), Tail(b))

NormSq(a) == Dot(a, a)

_cosine_similarity(vec1, vec2) ==
    IF NormSq(vec1) = 0 \/ NormSq(vec2) = 0
    THEN SignedRoot(0, 1)
    ELSE SignedRoot(Dot(vec1, vec2), NormSq(vec1) * NormSq(vec2))


(***************************************************************************)
(* The index object: self.dimension, self.vectors, self.metadata,          *)
(* self.index_dirty.  A method is an operator from the object (and the     *)
(* arguments) to the object after the call and the exception raised.       *)
(***************************************************************************)
Self == [dimension |-> dimension, vectors |-> vectors,
         metadata |-> metadata, index_dirty |-> index_dirty]

Returned(db) == [db |-> db, err |-> None]

Raised(db, e) == [db |-> db, err |-> e]

NewDatabase(d) == [dimension |-> d, vectors |-> EmptyDict,
                   metadata |-> EmptyDict, index_dirty |-> FALSE]

\* mutant: the length is checked after the vector is stored
add_vector_late_check(db, vector_id, vector, meta) ==
    LET stored == [db EXCEPT !.vectors = DictSet(@, vector_id, vector),
                             !.metadata = DictSet(@, vector_id, meta),
                             !.index_dirty = TRUE]
    IN  IF Len(vector) # db.dimension
        THEN Raised(stored, "ValueError")
        ELSE Returned(stored)

\* mutant: the new metadata is merged into the metadata already stored
add_vector_merge(db, vector_id, vector, meta) ==
    IF Len(vector) # db.dimension
    THEN Raised(db, "ValueError")
    ELSE Returned([db EXCEPT !.vectors = DictSet(@, vector_id, vector),
                             !.metadata = DictSet(@, vector_id,
                                 meta @@ DictGet(db.metadata, vector_id, EmptyMeta)),
                             !.index_dirty = TRUE])

add_vector(db, vector_id, vector, meta) ==
    IF Len(vector) # db.dimension
    THEN Raised(db, "ValueError")
    ELSE Returned([db EXCEPT !.vectors = DictSet(@, vector_id, vector),
                             !.metadata = DictSet(@, vector_id, meta),
                             !.index_dirty = TRUE])

remove_vector(db, vector_id) ==
    Returned([db EXCEPT !.vectors = DictPop(@, vector_id),
                        !.metadata = DictPop(@, vector_id),
                        !.index_dirty = TRUE])

\* the ids remove_by_metadata collects, in the order of self.metadata
ToRemove(db, key, value) ==
    DictKeys(SelectSeq(db.metadata, LAMBDA e : MetaGet(e[2], key) = value))

RECURSIVE RemoveAll(_, _)
RemoveAll(db, ids) ==
    IF Len(ids) = 0 THEN db
    ELSE RemoveAll(remove_vector(db, Head(ids)).db, Tail(ids))

\* mutant: only the first matching entry is removed
remove_by_metadata_first(db, key, value) ==
    LET to_remove == ToRemove(db, key, value)
    IN  Returned(RemoveAll(db, IF Len(to_remove) = 0 THEN to_remove
                               ELSE <<to_remove[1]>>))

remove_by_metadata(db, key, value) ==
    Returned(RemoveAll(db, ToRemove(db, key, value)))

clear(db) ==
    Returned([db EXCEPT !.vectors = EmptyDict,
                        !.metadata = EmptyDict,
                        !.index_dirty = FALSE])

(***************************************************************************)
(* search_similar                                                          *)
(***************************************************************************)
\* mutant: among equal similarities the later entry comes first
RECURSIVE SortDescending_unstable(_)
SortDescending_unstable(s) ==
    IF Len(s) <= 1 THEN s
    ELSE LET rest == SortDescending_unstable(SubSeq(s, 1, Len(s) - 1))
             x    == s[Len(s)]
             n    == Cardinality({i \in 1..Len(rest) :
                                    SimGT(rest[i].similarity, x.similarity)})
         IN  SubSeq(rest, 1, n) \o <<x>> \o SubSeq(rest, n + 1, Len(rest))

\* list.sort(key = similarity, reverse = True): stable, descending
RECURSIVE SortDescending(_)
SortDescending(s) ==
    IF Len(s) <= 1 THEN s
    ELSE LET rest == SortDescending(SubSeq(s, 1, Len(s) - 1))
             x    == s[Len(s)]
             n    == Cardinality({i \in 1..Len(rest) :
                                    SimGE(rest[i].similarity, x.similarity)})
         IN  SubSeq(rest, 1, n) \o <<x>> \o SubSeq(rest, n + 1, Len(rest))

\* mutant: the slice s[:k + 1]
SliceTo_one_more(s, k) ==
    SubSeq(s, 1, IF k + 1 < Len(s) THEN k + 1 ELSE Len(s))

\* the slice s[:k]
SliceTo(s, k) ==
    IF k >= 0
    THEN SubSeq(s, 1, IF k < Len(s) THEN k ELSE Len(s))
    ELSE SubSeq(s, 1, IF Len(s) + k > 0 THEN Len(s) + k ELSE 0)

\* the results the loop of search_similar appends, in the order of self.vectors
Similarities(db, query_vector, threshold) ==
    LET scored == [i \in 1..Len(db.vectors) |->
                     [id         |-> db.vectors[i][1],
                      similarity |-> _cosine_similarity(query_vector, db.vectors[i][2]),
                      metadata   |-> DictGet(db.metadata, db.vectors[i][1], EmptyMeta)]]
    IN  SelectSeq(scored, LAMBDA r : SimGE(r.similarity, threshold))

search_similar(db, query_vector, top_k, threshold) ==
    IF Len(query_vector) # db.dimension
    THEN [res |-> <<>>, err |-> "ValueError"]
    ELSE IF Len(db.vectors) = 0
    THEN [res |-> <<>>, err |-> None]
    ELSE IF \E i \in 1..Len(db.vectors) : Len(db.vectors[i][2]) # Len(query_vector)
    THEN [res |-> <<>>, err |-> "ValueError"]   \* np.dot: shapes not aligned
    ELSE [res |-> SliceTo(SortDescending(Similarities(db, query_vector, threshold)), top_k),
          err |-> None]

(***************************************************************************)
(* get_stats                                                               *)
(***************************************************************************)
\* len(s) of the strings the model stores
PyLen(s) == CASE s = "source_id" -> 9
              [] s = "content"   -> 7
              [] s = "v1"        -> 2
              [] s = "v2"        -> 2
              [] s = "x"         -> 1
              [] OTHER           -> 4

\* the sum of f[x] over the domain of f
RECURSIVE SumOver(_, _)
SumOver(f, S) ==
    IF S = {} THEN 0
    ELSE LET x == CHOOSE y \in S : TRUE IN f[x] + SumOver(f, S \ {x})

\* len(str(m)): "{'k': 'v', ...}"
MetaStrLen(m) ==
    IF DOMAIN m = {} THEN 2
    ELSE 2 + SumOver([k \in DOMAIN m |-> PyLen(k) + PyLen(m[k]) + 6], DOMAIN m)
           + 2 * (Cardinality(DOMAIN m) - 1)

\* the estimate in bytes; the code reports it divided by 1024 * 1024
_estimate_memory_usage(db) ==
    LET vector_memory   == Len(db.vectors) * db.dimension * 8
        metadata_memory ==
            SumOver([i \in 1..Len(db.metadata) |-> MetaStrLen(db.metadata[i][2])],
                    1..Len(db.metadata)) * 2
    IN  vector_memory + metadata_memory

get_stats(db) ==
    [total_vectors   |-> Len(db.vectors),
     dimension       |-> db.dimension,
     memory_usage_mb |-> _estimate_memory_usage(db),
     index_dirty     |-> db.index_dirty]

(***************************************************************************)
(* Snapshots.  The text of a file either is no JSON, or is a JSON object   *)
(* with some of the fields dimension, vectors, metadata.  A file that      *)
(* save_to_file wrote remembers the index it was written from.             *)
(***************************************************************************)
SnapshotFields == {"dimension", "vectors", "metadata"}

NoFile == [exists |-> FALSE, json |-> FALSE, fields |-> {}, dimension |-> 0,
           vectors |-> EmptyDict, metadata |-> EmptyDict,
           origin |-> "none", saved |-> NewDatabase(0)]

tolist(v) == [i \in 1..Len(v) |-> v[i]]

np_array(l) == [i \in 1..Len(l) |-> l[i]]

\* mutant: json.dump(..., sort_keys=True)
json_dump_sort_keys(db) ==
    LET ByKey(d) == SortSeq(d, LAMBDA e1, e2 : Pos(<<<<"a">>, <<"b">>, <<"c">>>>, e1[1])
                                             < Pos(<<<<"a">>, <<"b">>, <<"c">>>>, e2[1]))
    IN  [exists |-> TRUE, json |-> TRUE, fields |-> SnapshotFields,
         dimension |-> db.dimension,
         vectors   |-> ByKey([i \in 1..Len(db.vectors) |->
                          <<db.vectors[i][1], tolist(db.vectors[i][2])>>]),
         metadata  |-> ByKey(db.metadata),
         origin |-> "save_to_file", saved |-> db]

\* json.dump of {'dimension': .., 'vectors': {k: v.tolist()}, 'metadata': ..}
json_dump(db) ==
    [exists |-> TRUE, json |-> TRUE, fields |-> SnapshotFields,
     dimension |-> db.dimension,
     vectors   |-> [i \in 1..Len(db.vectors) |->
                      <<db.vectors[i][1], tolist(db.vectors[i][2])>>],
     metadata  |-> db.metadata,
     origin |-> "save_to_file", saved |-> db]

save_to_file(db) == json_dump(db)

\* load_from_file without the os.path.exists guard: open() raises on a
\* missing path
load_from_file_unguarded(db, f) ==
    IF ~f.exists THEN Raised(db, "FileNotFoundError")
    ELSE Raised(db, "JSONDecodeError")

load_from_file(db, f) ==
    IF ~f.exists THEN Returned(db)
    ELSE IF ~f.json THEN Raised(db, "JSONDecodeError")
    ELSE IF "dimension" \notin f.fields THEN Raised(db, "KeyError")
    ELSE LET d1 == [db EXCEPT !.dimension = f.dimension] IN
    IF "vectors" \notin f.fields THEN Raised(d1, "KeyError")
    ELSE LET d2 == [d1 EXCEPT !.vectors =
                       [i \in 1..Len(f.vectors) |->
                          <<f.vectors[i][1], np_array(f.vectors[i][2])>>]] IN
    IF "metadata" \notin f.fields THEN Raised(d2, "KeyError")
    ELSE Returned([d2 EXCEPT !.metadata = f.metadata, !.index_dirty = FALSE])

(***************************************************************************)
(* The calls made on the index.  Each action is one call: the object       *)
(* becomes what the method leaves, and last records the call, the          *)
(* exception it raised and what it returned or found.                      *)
(***************************************************************************)
Assign(db) ==
    /\ dimension'   = db.dimension
    /\ vectors'     = db.vectors
    /\ metadata'    = db.metadata
    /\ index_dirty' = db.index_dirty

Call(op, args, err, out) == [op |-> op, args |-> args, err |-> err, out |-> out]

AddVector(vector_id, vector, meta) ==
    LET r == add_vector(Self, vector_id, vector, meta)
    IN  /\ Assign(r.db)
        /\ last' = Call("add_vector", <<vector_id, vector, meta>>, r.err,
                        <<DictHas(vectors, vector_id)>>)
        /\ UNCHANGED <<ctor_dimension, file, chunker, task, agent,
                       embedder, loop, splitting>>

RemoveVector(vector_id) ==
    LET r == remove_vector(Self, vector_id)
    IN  /\ Assign(r.db)
        /\ last' = Call("remove_vector", <<vector_id>>, r.err,
                        <<DictHas(vectors, vector_id)>>)
        /\ UNCHANGED <<ctor_dimension, file, chunker, task, agent,
                       embedder, loop, splitting>>

RemoveByMetadata(key, value) ==
    LET r == remove_by_metadata(Self, key, value)
    IN  /\ Assign(r.db)
        /\ last' = Call("remove_by_metadata", <<key, value>>, r.err,
                        ToRemove(Self, key, value))
        /\ UNCHANGED <<ctor_dimension, file, chunker, task, agent,
                       embedder, loop, splitting>>

Clear ==
    LET r == clear(Self)
    IN  /\ Assign(r.db)
        /\ last' = Call("clear", <<>>, r.err, <<>>)
        /\ UNCHANGED <<ctor_dimension, file, chunker, task, agent,
                       embedder, loop, splitting>>

SearchSimilar(query_vector, top_k, threshold) ==
    LET r == search_similar(Self, query_vector, top_k, threshold)
    IN  /\ last' = Call("search_similar", <<query_vector, top_k, threshold>>,
                        r.err, r.res)
        /\ UNCHANGED <<ctor_dimension, dimension, vectors, metadata,
                       index_dirty, file, chunker, task, agent,
                       embedder, loop, splitting>>

SaveToFile ==
    /\ file' = save_to_file(Self)
    /\ last' = Call("save_to_file", <<>>, None, <<>>)
    /\ UNCHANGED <<ctor_dimension, dimension, vectors, metadata, index_dirty,
                   chunker, task, agent,
                       embedder, loop, splitting>>

LoadFromFile ==
    LET r == load_from_file(Self, file)
    IN  /\ Assign(r.db)
        /\ last' = Call("load_from_file", <<>>, r.err, <<r.db.vectors # vectors>>)
        /\ UNCHANGED <<ctor_dimension, file, chunker, task, agent,
                       embedder, loop, splitting>>

\* another process (an indexing run, an editor) leaves a file at the path
WriteExternalFile(f) ==
    /\ file' = f
    /\ last' = Call("external_write", <<>>, None, <<>>)
    /\ UNCHANGED <<ctor_dimension, dimension, vectors, metadata, index_dirty,
                   chunker, task, agent,
                       embedder, loop, splitting>>

(***************************************************************************)
(* Python strings.  A str is the sequence of its characters, so that       *)
(* len, slicing, strip, split, join, lower, find and `in` are computed     *)
(* character by character as Python computes them.                         *)
(***************************************************************************)
Whitespace == {" ", "\n", "\t"}

RECURSIVE lstrip(_)
lstrip(s) == IF s # <<>> /\ Head(s) \in Whitespace THEN lstrip(Tail(s)) ELSE s

RECURSIVE rstrip(_)
rstrip(s) ==
    IF s # <<>> /\ s[Len(s)] \in Whitespace
    THEN rstrip(SubSeq(s, 1, Len(s) - 1)) ELSE s

\* s.strip()
strip(s) == rstrip(lstrip(s))

\* s[i:j] for 0 <= i, 0 <= j
Slice(s, i, j) == SubSeq(s, i + 1, IF j < Len(s) THEN j ELSE Len(s))

\* s[-n:] for 0 <= n: s[-0:] is s[0:], the whole of s
LastChars(s, n) ==
    IF n = 0 \/ n >= Len(s) THEN s ELSE SubSeq(s, Len(s) - n + 1, Len(s))

\* s[i:].startswith(sub), i counted from 0
MatchAt(s, sub, i) ==
    /\ i + Len(sub) <= Len(s)
    /\ SubSeq(s, i + 1, i + Len(sub)) = sub

\* sub in s
Contains(s, sub) == \E i \in 0..Len(s) : MatchAt(s, sub, i)

\* s.find(sub): the lowest index of sub in s, -1 if there is none
find(s, sub) ==
    IF Contains(s, sub)
    THEN CHOOSE i \in 0..Len(s) :
            MatchAt(s, sub, i) /\ \A j \in 0..(i - 1) : ~MatchAt(s, sub, j)
    ELSE -1

\* s.rfind(sub, start, end): the highest index of sub within s[start:end]
rfind(s, sub, start, end) ==
    LET hits == {i \in start..(end - Len(sub)) : MatchAt(s, sub, i)}
    IN  IF hits = {} THEN -1
        ELSE CHOOSE i \in hits : \A j \in hits : j <= i

\* s.split(sep) for a non-empty sep: empty pieces are kept
RECURSIVE split(_, _)
split(s, sep) ==
    LET i == find(s, sep)
    IN  IF i = -1 THEN <<s>>
        ELSE <<Slice(s, 0, i)>> \o split(Slice(s, i + Len(sep), Len(s)), sep)

\* s.split(): the runs of characters that are not whitespace
RECURSIVE split_whitespace(_)
split_whitespace(s) ==
    LET t == lstrip(s)
        n == IF \E i \in 1..Len(t) : t[i] \in Whitespace
             THEN (CHOOSE i \in 1..Len(t) :
                      t[i] \in Whitespace /\ \A j \in 1..(i - 1) : t[j] \notin Whitespace) - 1
             ELSE Len(t)
    IN  IF t = <<>> THEN <<>>
        ELSE <<SubSeq(t, 1, n)>> \o split_whitespace(SubSeq(t, n + 1, Len(t)))

\* sep.join(parts)
RECURSIVE join(_, _)
join(sep, parts) ==
    IF parts = <<>> THEN <<>>
    ELSE IF Len(parts) = 1 THEN parts[1]
    ELSE parts[1] \o sep \o join(sep, Tail(parts))

UpperCase == <<"A", "B", "C", "D", "E", "F", "G", "H", "I", "J", "K", "L", "M",
               "N", "O", "P", "Q", "R", "S", "T", "U", "V", "W", "X", "Y", "Z">>

LowerCase == <<"a", "b", "c", "d", "e", "f", "g", "h", "i", "j", "k", "l", "m",
               "n", "o", "p", "q", "r", "s", "t", "u", "v", "w", "x", "y", "z">>

\* s.lower()
lower(s) ==
    [i \in 1..Len(s) |->
        IF \E k \in 1..Len(UpperCase) : UpperCase[k] = s[i]
        THEN LowerCase[CHOOSE k \in 1..Len(UpperCase) : UpperCase[k] = s[i]]
        ELSE s[i]]

\* parts[:n] and parts[-n:] of a list, n > 0
FirstItems(parts, n) == SubSeq(parts, 1, IF n < Len(parts) THEN n ELSE Len(parts))

LastItems(parts, n) ==
    SubSeq(parts, IF n < Len(parts) THEN Len(parts) - n + 1 ELSE 1, Len(parts))

(***************************************************************************)
(* The chunker (text_chunker.py).  self is the record of chunk_size,       *)
(* chunk_overlap and separators; a method is an operator of self and the   *)
(* method's arguments.                                                     *)
(***************************************************************************)
NewTextChunker ==
    [chunk_size |-> 1000, chunk_overlap |-> 200,
     separators |-> << <<"\n", "\n">>, <<"\n">>, <<".", " ">>, <<"?", " ">>,
                       <<"!", " ">>, <<" ">> >>]

_get_overlap_text(self, text) ==
    IF Len(text) <= self.chunk_overlap THEN text \o <<" ">>
    ELSE LET overlap_candidates == split(LastChars(text, self.chunk_overlap), <<" ">>)
             overlap_text == IF Len(overlap_candidates) > 1
                             THEN join(<<" ">>, Tail(overlap_candidates))
                             ELSE LastChars(text, self.chunk_overlap)
         IN  IF overlap_text # <<>> THEN overlap_text \o <<" ">> ELSE <<>>

\* the while loop of _split_by_characters, from the position start
RECURSIVE SplitFrom(_, _, _, _)
SplitFrom(self, text, start, chunks) ==
    IF ~(start < Len(text)) THEN chunks
    ELSE LET end0 == start + self.chunk_size IN
         IF end0 >= Len(text) THEN Append(chunks, Slice(text, start, Len(text)))
         ELSE LET space_pos == rfind(text, <<" ">>, start, end0)
                  end == IF space_pos > start THEN space_pos ELSE end0
              IN  SplitFrom(self, text,
                            IF end - self.chunk_overlap > start
                            THEN end - self.chunk_overlap ELSE end,
                            Append(chunks, Slice(text, start, end)))

\* mutant: only the first window of the text is returned
_split_by_characters_first_window(self, text) ==
    <<Slice(text, 0, IF self.chunk_size < Len(text) THEN self.chunk_size ELSE Len(text))>>

_split_by_characters(self, text) == SplitFrom(self, text, 0, <<>>)

RECURSIVE _recursive_split(_, _)
RECURSIVE SplitLoop(_, _, _, _, _)

\* the loop over the splits of the text at one separator: chunks and
\* current_chunk after the splits from position i on
SplitLoop(self, separator, splits, i, st) ==
    IF i > Len(splits) THEN st
    ELSE LET current_chunk == st.current_chunk
             s == splits[i]
             step ==
               IF Len(current_chunk) + Len(s) + Len(separator) > self.chunk_size
               THEN IF current_chunk # <<>>
                    THEN [chunks |-> Append(st.chunks, strip(current_chunk)),
                          current_chunk |-> _get_overlap_text(self, current_chunk) \o s]
                    ELSE LET sub_chunks == _recursive_split(self, s)
                         IN  [chunks |-> st.chunks
                                           \o SubSeq(sub_chunks, 1, Len(sub_chunks) - 1),
                              current_chunk |-> IF sub_chunks # <<>>
                                                THEN sub_chunks[Len(sub_chunks)]
                                                ELSE <<>>]
               ELSE [chunks |-> st.chunks,
                     current_chunk |-> IF current_chunk # <<>>
                                       THEN current_chunk \o separator \o s
                                       ELSE s]
         IN  SplitLoop(self, separator, splits, i + 1, step)

_recursive_split(self, text) ==
    IF Len(text) <= self.chunk_size THEN <<text>>
    ELSE LET found == SelectSeq(self.separators, LAMBDA sep : Contains(text, sep))
         IN  IF found = <<>> THEN _split_by_characters(self, text)
             ELSE LET separator == found[1]
                      st == SplitLoop(self, separator, split(text, separator), 1,
                                      [chunks |-> <<>>, current_chunk |-> <<>>])
                  IN  IF st.current_chunk # <<>>
                      THEN Append(st.chunks, strip(st.current_chunk))
                      ELSE st.chunks

DigitChars == <<"0", "1", "2", "3", "4", "5", "6", "7", "8", "9">>

\* str(n) for an int n >= 0
RECURSIVE Decimal(_)
Decimal(n) ==
    IF n < 10 THEN <<DigitChars[n + 1]>>
    ELSE Decimal(n \div 10) \o <<DigitChars[(n % 10) + 1]>>

\* f"{n:02d}"
Format02d(n) == IF n < 10 THEN <<"0">> \o Decimal(n) ELSE Decimal(n)

\* A number of seconds is kept in tenths of a second; int(seconds) drops
\* the fraction.
_format_timestamp(seconds) ==
    LET total_seconds == seconds \div 10
        hours   == total_seconds \div 3600
        minutes == (total_seconds % 3600) \div 60
        secs    == total_seconds % 60
    IN  IF hours > 0
        THEN Format02d(hours) \o <<":">> \o Format02d(minutes) \o <<":">> \o Format02d(secs)
        ELSE Format02d(minutes) \o <<":">> \o Format02d(secs)

ZeroTime == <<"0", "0", ":", "0", "0">>

\* An entry of raw_transcript is a dict: keys names the keys it has, text_is_str
\* tells whether the value at 'text' is a str (text) or something else.
\* entry.get(key, 0) for the keys start and duration
EntryGet(entry, key) == IF key \in entry.keys THEN entry[key] ELSE 0

\* One of the two for-loops of _find_chunk_timestamps: the position of the
\* first entry whose lowercased text contains the phrase (0 if none), or the
\* exception raised on the way there.
RECURSIVE FirstEntryWith(_, _, _)
FirstEntryWith(raw_transcript, phrase, i) ==
    IF i > Len(raw_transcript) THEN [err |-> None, at |-> 0]
    ELSE LET entry == raw_transcript[i] IN
         IF "text" \in entry.keys /\ ~entry.text_is_str
         THEN [err |-> "AttributeError", at |-> 0]
         ELSE LET transcript_text ==
                      lower(IF "text" \in entry.keys THEN entry.text ELSE <<>>)
              IN  IF Contains(transcript_text, phrase)
                  THEN [err |-> None, at |-> i]
                  ELSE FirstEntryWith(raw_transcript, phrase, i + 1)

_find_chunk_timestamps(chunk, raw_transcript) ==
    IF raw_transcript = <<>>
    THEN [err |-> None, start_time |-> ZeroTime, end_time |-> ZeroTime]
    ELSE LET chunk_words == FirstItems(split_whitespace(chunk), 5)
             first == FirstEntryWith(raw_transcript, lower(join(<<" ">>, chunk_words)), 1)
             chunk_end_words == LastItems(split_whitespace(chunk), 5)
             final == FirstEntryWith(raw_transcript, lower(join(<<" ">>, chunk_end_words)), 1)
         IN  IF first.err # None
             THEN [err |-> first.err, start_time |-> ZeroTime, end_time |-> ZeroTime]
             ELSE IF first.at = 0
             THEN [err |-> None, start_time |-> ZeroTime, end_time |-> ZeroTime]
             ELSE IF final.err # None
             THEN [err |-> final.err, start_time |-> ZeroTime, end_time |-> ZeroTime]
             ELSE [err |-> None,
                   start_time |-> _format_timestamp(EntryGet(raw_transcript[first.at], "start")),
                   end_time |->
                     IF final.at = 0 THEN ZeroTime
                     ELSE _format_timestamp(EntryGet(raw_transcript[final.at], "start")
                                            + EntryGet(raw_transcript[final.at], "duration"))]

_add_timestamps(chunks, raw_transcript) ==
    LET found == [i \in 1..Len(chunks) |-> _find_chunk_timestamps(chunks[i], raw_transcript)]
    IN  IF \E i \in 1..Len(chunks) : found[i].err # None
        THEN [err |-> found[CHOOSE i \in 1..Len(chunks) :
                               /\ found[i].err # None
                               /\ \A j \in 1..(i - 1) : found[j].err = None].err,
              chunks |-> <<>>]
        ELSE [err |-> None,
              chunks |-> [i \in 1..Len(chunks) |->
                            [content |-> chunks[i],
                             chunk_index |-> i - 1,
                             start_time |-> found[i].start_time,
                             end_time |-> found[i].end_time,
                             word_count |-> Len(split_whitespace(chunks[i]))]]]

RECURSIVE SumLen(_)
SumLen(chunks) ==
    IF chunks = <<>> THEN 0 ELSE Len(Head(chunks).content) + SumLen(Tail(chunks))

\* what process_task raises (err) or returns: a task is the dict of the keys
\* in task.keys
Failed(err) ==
    [err |-> err, chunks |-> <<>>, total_chunks |-> 0, avg_chunk_size |-> <<0, 1>>]

process_task(self, t) ==
    IF "type" \notin t.keys \/ t.type # "chunk_text" THEN Failed("ValueError")
    ELSE IF "transcript" \notin t.keys \/ t.transcript = <<>> THEN Failed("ValueError")
    ELSE LET raw_transcript == IF "raw_transcript" \in t.keys THEN t.raw_transcript ELSE <<>>
             chunks == _recursive_split(self, t.transcript)
             timestamped_chunks == _add_timestamps(chunks, raw_transcript)
         IN  IF timestamped_chunks.err # None THEN Failed(timestamped_chunks.err)
             ELSE IF Len(timestamped_chunks.chunks) = 0 THEN Failed("ZeroDivisionError")
             ELSE [err |-> None,
                   chunks |-> timestamped_chunks.chunks,
                   total_chunks |-> Len(timestamped_chunks.chunks),
                   avg_chunk_size |-> <<SumLen(timestamped_chunks.chunks),
                                        Len(timestamped_chunks.chunks)>>]

\* TextChunker.process_task(task)
ChunkText ==
    LET r == process_task(chunker, task)
    IN  /\ last' = Call("chunk_text", <<>>, r.err, r.chunks)
        /\ UNCHANGED <<ctor_dimension, dimension, vectors, metadata, index_dirty,
                       file, chunker, task, agent,
                       embedder, loop, splitting>>

(***************************************************************************)
(* The search agent (search_agent.py).  self is the record of the          *)
(* attributes SearchAgent.__init__ sets; the agent reads the shared index. *)
(***************************************************************************)
NewSearchAgent ==
    [max_results |-> 15,
     min_similarity_threshold |-> Rational(1, 5),
     rerank_model |-> "text-embedding-3-small"]

\* no task handed over yet
NoTask == [keys |-> {}]

\* What the embedding provider answers to one request: a vector, or an
\* error (no API key, a failed request).
Embedded(v) == [ok |-> TRUE, embedding |-> v]

ProviderError == [ok |-> FALSE, embedding |-> <<>>]

\* A provider is the answers it gives during one search: to the request for
\* the query, to the request for the query with the re-rank model, and to
\* the request for the content of each candidate, by the candidate's id.

\* meta.get("content", "")
ContentOf(meta) == IF "content" \in DOMAIN meta THEN meta.content ELSE <<>>

\* what a search raises (err) or returns when it has no result, and the
\* requests made to the provider on the way
NoResults(err, calls) ==
    [err |-> err, total_results |-> 0, results |-> <<>>, calls |-> calls]

\* mutant: the matches are returned without the cut to max_results
_keyword_search_uncut(self, db, query) ==
    LET all == [i \in 1..Len(db.metadata) |->
                  [id |-> db.metadata[i][1], similarity |-> Rational(1, 1),
                   metadata |-> db.metadata[i][2]]]
        matches == SelectSeq(all, LAMBDA m :
                       Contains(lower(ContentOf(m.metadata)), lower(query)))
    IN  [err |-> None, total_results |-> Len(matches), results |-> matches,
         calls |-> <<>>]

_keyword_search(self, db, query) ==
    LET all == [i \in 1..Len(db.metadata) |->
                  [id |-> db.metadata[i][1], similarity |-> Rational(1, 1),
                   metadata |-> db.metadata[i][2]]]
        matches == SelectSeq(all, LAMBDA m :
                       Contains(lower(ContentOf(m.metadata)), lower(query)))
    IN  [err |-> None, total_results |-> Len(matches),
         results |-> SliceTo(matches, self.max_results), calls |-> <<>>]

\* sorted(items, key = score, reverse = True) of (score, item) pairs
SortedByScore(pairs) ==
    LET sorted == SortDescending([i \in 1..Len(pairs) |->
                      [similarity |-> pairs[i][1], item |-> pairs[i][2]]])
    IN  [i \in 1..Len(sorted) |-> sorted[i].item]

\* mutant: a candidate whose embedding request fails is dropped
_rerank_drops_failed(self, query, matches, provider) ==
    IF ~provider.rerank_query.ok
    THEN [matches |-> matches, calls |-> <<"rerank_query">>]
    ELSE LET kept == SelectSeq(matches, LAMBDA m : provider.rerank_chunks[m.id].ok)
             scored == [i \in 1..Len(kept) |->
                 [id |-> kept[i].id, similarity |-> kept[i].similarity,
                  metadata |-> kept[i].metadata,
                  similarity_rerank |->
                     SignedRoot(Dot(provider.rerank_query.embedding,
                                    provider.rerank_chunks[kept[i].id].embedding),
                                NormSq(provider.rerank_query.embedding)
                                  * NormSq(provider.rerank_chunks[kept[i].id].embedding))]]
         IN  [matches |-> SortedByScore([i \in 1..Len(scored) |->
                              <<scored[i].similarity_rerank, scored[i]>>]),
              calls |-> <<"rerank_query">> \o [i \in 1..Len(matches) |-> matches[i].id]]

\* mutant: a failure to embed the query is ignored, the candidates are
\* requested and keep their scores as re-rank scores
_rerank_query_failure_ignored(self, query, matches, provider) ==
    [matches |-> [i \in 1..Len(matches) |->
                    [id |-> matches[i].id, similarity |-> matches[i].similarity,
                     metadata |-> matches[i].metadata,
                     similarity_rerank |-> matches[i].similarity]],
     calls |-> <<"rerank_query">> \o [i \in 1..Len(matches) |-> matches[i].id]]

_rerank(self, query, matches, provider) ==
    IF ~provider.rerank_query.ok
    THEN [matches |-> matches, calls |-> <<"rerank_query">>]
    ELSE LET query_emb == provider.rerank_query.embedding
             scored == [i \in 1..Len(matches) |->
                 LET m == matches[i]
                     chunk_emb == provider.rerank_chunks[m.id]
                     sim == IF chunk_emb.ok /\ Len(chunk_emb.embedding) = Len(query_emb)
                            THEN SignedRoot(Dot(query_emb, chunk_emb.embedding),
                                            NormSq(query_emb) * NormSq(chunk_emb.embedding))
                            ELSE m.similarity
                 IN  [id |-> m.id, similarity |-> m.similarity,
                      metadata |-> m.metadata, similarity_rerank |-> sim]]
         IN  [matches |-> SortedByScore([i \in 1..Len(scored) |->
                              <<scored[i].similarity_rerank, scored[i]>>]),
              calls |-> <<"rerank_query">> \o [i \in 1..Len(matches) |-> matches[i].id]]

Reranked(r) ==
    [err |-> None, total_results |-> Len(r.matches),
     results |-> r.matches, calls |-> <<"query">> \o r.calls]

\* lines 103-111 of _semantic_search: what is made of the matches found
SemanticOf(self, query, found, provider) ==
    IF found.err # None THEN NoResults(found.err, <<"query">>)
    ELSE IF self.rerank_model # ""
    THEN Reranked(_rerank(self, query, found.res, provider))
    ELSE [err |-> None, total_results |-> Len(found.res),
          results |-> found.res, calls |-> <<"query">>]

_semantic_search(self, db, query, provider) ==
    IF ~provider.query.ok THEN NoResults("EmbeddingError", <<"query">>)
    ELSE SemanticOf(self, query,
                    search_similar(db, provider.query.embedding, self.max_results,
                                   self.min_similarity_threshold),
                    provider)

\* mutant: on a conflict the keyword entry is kept
Combined_keyword_wins(self, kw_res, sem_res) ==
    LET kw_ids == {kw_res.results[i].id : i \in 1..Len(kw_res.results)}
        combined == kw_res.results
                      \o SelectSeq(sem_res.results, LAMBDA m : m.id \notin kw_ids)
    IN  SortedByScore([i \in 1..Len(combined) |-> <<combined[i].similarity, combined[i]>>])

\* mutant: when the embedding fails the keyword matches are returned
HybridOf_fallback(self, kw_res, sem_res) ==
    IF sem_res.err # None THEN [kw_res EXCEPT !.calls = sem_res.calls]
    ELSE sem_res

\* lines 119-130 of _hybrid_search: the union of the two results
Combined(self, kw_res, sem_res) ==
    LET sem_ids == {sem_res.results[i].id : i \in 1..Len(sem_res.results)}
        \* the dict: the semantic entries, then the keyword entries setdefault adds
        combined == sem_res.results
                      \o SelectSeq(kw_res.results, LAMBDA m : m.id \notin sem_ids)
    IN  SortedByScore([i \in 1..Len(combined) |-> <<combined[i].similarity, combined[i]>>])

Ranked(self, ranked, calls) ==
    [err |-> None, total_results |-> Len(ranked),
     results |-> SliceTo(ranked, self.max_results), calls |-> calls]

HybridOf(self, kw_res, sem_res) ==
    IF sem_res.err # None THEN NoResults(sem_res.err, sem_res.calls)
    ELSE Ranked(self, Combined(self, kw_res, sem_res), sem_res.calls)

_hybrid_search(self, db, query, provider) ==
    HybridOf(self, _keyword_search(self, db, query),
             _semantic_search(self, db, query, provider))

\* task.get("query", "").strip()
QueryOf(t) == strip(IF "query" \in t.keys THEN t.query ELSE <<>>)

\* task.get("search_type", "hybrid")
SearchTypeOf(t) == IF "search_type" \in t.keys THEN t.search_type ELSE "hybrid"

\* mutant: the query is tested before it is stripped
SearchAgent_process_task_unstripped(self, db, t, provider) ==
    IF "type" \in t.keys /\ t.type = "update_search_index"
    THEN NoResults(None, <<>>)
    ELSE IF "type" \notin t.keys \/ t.type # "search"
    THEN NoResults("ValueError", <<>>)
    ELSE IF "query" \notin t.keys \/ t.query = <<>> THEN NoResults("ValueError", <<>>)
    ELSE IF SearchTypeOf(t) = "keyword" THEN _keyword_search(self, db, QueryOf(t))
    ELSE IF SearchTypeOf(t) = "semantic"
    THEN _semantic_search(self, db, QueryOf(t), provider)
    ELSE _hybrid_search(self, db, QueryOf(t), provider)

SearchAgent_process_task(self, db, t, provider) ==
    IF "type" \in t.keys /\ t.type = "update_search_index"
    THEN NoResults(None, <<>>)
    ELSE IF "type" \notin t.keys \/ t.type # "search"
    THEN NoResults("ValueError", <<>>)
    ELSE IF QueryOf(t) = <<>> THEN NoResults("ValueError", <<>>)
    ELSE IF SearchTypeOf(t) = "keyword" THEN _keyword_search(self, db, QueryOf(t))
    ELSE IF SearchTypeOf(t) = "semantic"
    THEN _semantic_search(self, db, QueryOf(t), provider)
    ELSE _hybrid_search(self, db, QueryOf(t), provider)

\* SearchAgent.process_task(t), the provider answering as given
Search(t, provider) ==
    \E r \in {SearchAgent_process_task(agent, Self, t, provider)} :
        /\ task' = t
        /\ last' = Call("search", <<provider>>, r.err,
                        [results |-> r.results, total_results |-> r.total_results,
                         calls |-> r.calls])
        /\ UNCHANGED <<ctor_dimension, dimension, vectors, metadata, index_dirty,
                       file, chunker, agent,
                       embedder, loop, splitting>>

(***************************************************************************)
(* The VectorEmbedder (agents/vector_embedder.py).  The object is the      *)
(* record of the attributes __init__ assigns; reading an attribute the     *)
(* object does not have raises AttributeError.  Its vector_db would be a   *)
(* VectorDatabase of its own, not the module-level vector_db of            *)
(* services/vector_db.py that SearchAgent reads (the variables dimension,  *)
(* vectors, metadata, index_dirty).  A chunk is a record with the keys it  *)
(* holds; the provider maps a text to what the embeddings request gives.   *)
(***************************************************************************)
\* no VectorEmbedder has been constructed
NoEmbedder == [x \in {} |-> None]

\* the names the body of __init__ binds (`import sys`, `import os`, lines
\* 22-23): they are local names of __init__ in the whole body
InitLocals == {"sys", "os"}

\* VectorEmbedder.__init__: line 18 reads os (os.getenv) before line 23 has
\* bound it
VectorEmbedder__init__ ==
    IF "os" \in InitLocals
    THEN [self |-> NoEmbedder, err |-> "UnboundLocalError"]
    ELSE [self |-> [embedding_model |-> "text-embedding-ada-002",
                    vector_dimension |-> 1536,
                    vector_db |-> NewDatabase(1536),
                    embeddings_cache |-> EmptyDict],
          err |-> None]

\* f"{youtube_id}_{chunk.get('chunk_index', 0)}"
ChunkId(youtube_id, chunk) ==
    youtube_id \o <<"_">> \o
        Decimal(IF "chunk_index" \in DOMAIN chunk THEN chunk.chunk_index ELSE 0)

\* VectorEmbedder._get_embedding: the cached vector, or the provider's
\* answer, which is cached; Exception when the request fails
VectorEmbedder_get_embedding(self, text, provider) ==
    IF DictHas(self.embeddings_cache, text)
    THEN [self |-> self, err |-> None,
          embedding |-> DictGet(self.embeddings_cache, text, <<>>)]
    ELSE IF provider[text].ok
    THEN [self |-> [self EXCEPT !.embeddings_cache =
                        DictSet(@, text, provider[text].embedding)],
          err |-> None, embedding |-> provider[text].embedding]
    ELSE [self |-> self, err |-> "Exception", embedding |-> <<>>]

\* the loop of _create_embeddings over the chunks left (lines 57-73)
RECURSIVE EmbedChunks(_, _, _, _, _)
EmbedChunks(self, youtube_id, chunks, provider, embedded_chunks) ==
    IF chunks = <<>>
    THEN [self |-> self, err |-> None, embedded_chunks |-> embedded_chunks]
    ELSE LET chunk == Head(chunks)
             content == IF "content" \in DOMAIN chunk THEN chunk.content ELSE <<>>
             e == VectorEmbedder_get_embedding(self, content, provider)
             chunk_with_embedding ==
                 [chunk |-> chunk, embedding |-> tolist(e.embedding),
                  youtube_id |-> youtube_id]
             chunk_id == ChunkId(youtube_id, chunk)
         IN  IF e.err # None
             THEN [self |-> e.self, err |-> e.err, embedded_chunks |-> embedded_chunks]
             ELSE IF "vector_store" \notin DOMAIN e.self
             THEN [self |-> e.self, err |-> "AttributeError",
                   embedded_chunks |-> Append(embedded_chunks, chunk_with_embedding)]
             ELSE EmbedChunks([e.self EXCEPT !.vector_store =
                                   DictSet(@, chunk_id, chunk_with_embedding)],
                              youtube_id, Tail(chunks), provider,
                              Append(embedded_chunks, chunk_with_embedding))

\* VectorEmbedder._create_embeddings
_create_embeddings(self, t, provider) ==
    LET chunks == IF "chunks" \in t.keys THEN t.chunks ELSE <<>>
        r == EmbedChunks(self, t.youtube_id, chunks, provider, <<>>)
    IN  IF chunks = <<>>
        THEN [self |-> self, err |-> "ValueError", total_embeddings |-> 0]
        ELSE IF r.err # None
        THEN [self |-> r.self, err |-> r.err, total_embeddings |-> 0]
        ELSE [self |-> r.self, err |-> None,
              total_embeddings |-> Len(r.embedded_chunks)]

\* re_embed_all.embed_video_chunks: a VectorEmbedder is constructed and
\* handed the create_embeddings task; an exception is printed and None is
\* returned
EmbedVideoChunks(t, provider) ==
    \E c \in {VectorEmbedder__init__} :
    \E r \in {IF c.err # None
              THEN [self |-> c.self, err |-> c.err, total_embeddings |-> 0]
              ELSE _create_embeddings(c.self, t, provider)} :
        /\ task' = t
        /\ embedder' = r.self
        /\ last' = Call("embed_video_chunks", <<provider>>, r.err, r.total_embeddings)
        /\ UNCHANGED <<ctor_dimension, dimension, vectors, metadata, index_dirty,
                       file, chunker, agent, loop, splitting>>

(***************************************************************************)
(* The locals of _split_by_characters                                      *)
(***************************************************************************)
\* no call of _split_by_characters is in progress
NoSplit == [text |-> <<>>, start |-> 0, chunks |-> <<>>, running |-> FALSE]

\* the locals when _split_by_characters(text) is entered (lines 114-115)
EnterSplit(text) == [text |-> text, start |-> 0, chunks |-> <<>>, running |-> TRUE]

\* mutant: the window is moved back by the overlap whenever that does not
\* move it before its start
SplitIteration_may_stand_still(self, s) ==
    IF ~(s.start < Len(s.text)) THEN [s EXCEPT !.running = FALSE]
    ELSE LET end0 == s.start + self.chunk_size IN
         IF end0 >= Len(s.text)
         THEN [s EXCEPT !.chunks = Append(@, Slice(s.text, s.start, Len(s.text))),
                        !.running = FALSE]
         ELSE LET space_pos == rfind(s.text, <<" ">>, s.start, end0)
                  end == IF space_pos > s.start THEN space_pos ELSE end0
              IN  [s EXCEPT !.chunks = Append(@, Slice(s.text, s.start, end)),
                            !.start = IF end - self.chunk_overlap >= s.start
                                      THEN end - self.chunk_overlap ELSE end]

\* one test of the while condition of _split_by_characters and, when it
\* holds, one pass through the body (lines 117-130)
SplitIteration(self, s) ==
    IF ~(s.start < Len(s.text)) THEN [s EXCEPT !.running = FALSE]
    ELSE LET end0 == s.start + self.chunk_size IN
         IF end0 >= Len(s.text)
         THEN [s EXCEPT !.chunks = Append(@, Slice(s.text, s.start, Len(s.text))),
                        !.running = FALSE]
         ELSE LET space_pos == rfind(s.text, <<" ">>, s.start, end0)
                  end == IF space_pos > s.start THEN space_pos ELSE end0
              IN  [s EXCEPT !.chunks = Append(@, Slice(s.text, s.start, end)),
                            !.start = IF end - self.chunk_overlap > s.start
                                      THEN end - self.chunk_overlap ELSE end]

SplitIterate ==
    /\ splitting.running
    /\ splitting' = SplitIteration(chunker, splitting)
    /\ UNCHANGED <<ctor_dimension, dimension, vectors, metadata, index_dirty,
                   file, chunker, task, agent, embedder, loop, last>>

(***************************************************************************)
(* The event loop.  The server is one uvicorn process whose endpoints are  *)
(* all `async def` (python_agent_server.py 42-113): every request is a     *)
(* coroutine of one asyncio loop, and the loop hands the thread to another *)
(* coroutine only where the running one awaits.  The methods of            *)
(* VectorDatabase and the loop of _keyword_search hold no await, and the   *)
(* only worker thread (asyncio.to_thread, search_agent.py 166) runs the    *)
(* provider's client, which does not touch the index.  A frame is a        *)
(* coroutine that makes one call on the index: suspended before the call   *)
(* (at = "await"), or inside it at the statement of line pc (at = "call"). *)
(***************************************************************************)
IdleFrame ==
    [op |-> "idle", args |-> <<>>, at |-> "await", pc |-> 0,
     entry |-> NewDatabase(0), entry_file |-> NoFile,
     to_remove |-> <<>>, vector_id |-> None, out |-> <<>>]

\* the first statement of each method
FirstLine(op) ==
    CASE op = "add_vector"         -> 18
      [] op = "remove_vector"      -> 55
      [] op = "remove_by_metadata" -> 62
      [] op = "load_from_file"     -> 103
      [] op = "search_similar"     -> 28
      [] op = "_keyword_search"    -> 71
      [] op = "save_to_file"       -> 90

\* the statement at line pc has run and the next one is at line pc2
Goto(db, fl, f, pc2) == [db |-> db, file |-> fl, f |-> [f EXCEPT !.pc = pc2],
                         returned |-> FALSE, err |-> None]

\* the statement at line pc has run and the method returns or raises
Return(db, fl, f, err) == [db |-> db, file |-> fl, f |-> f,
                           returned |-> TRUE, err |-> err]

\* one statement of the method the frame is in
Statement(self, db, fl, f) ==
    LET a == f.args
        vector_id == IF f.op = "remove_vector" THEN a[1] ELSE f.vector_id
    IN
    CASE f.op = "add_vector" /\ f.pc = 18 ->
            IF Len(a[2]) # db.dimension
            THEN Return(db, fl, f, "ValueError") ELSE Goto(db, fl, f, 21)
      [] f.op = "add_vector" /\ f.pc = 21 ->
            Goto([db EXCEPT !.vectors = DictSet(@, a[1], a[2])], fl, f, 22)
      [] f.op = "add_vector" /\ f.pc = 22 ->
            Goto([db EXCEPT !.metadata = DictSet(@, a[1], a[3])], fl, f, 23)
      [] f.op = "add_vector" /\ f.pc = 23 ->
            Return([db EXCEPT !.index_dirty = TRUE], fl, f, None)
      [] f.op = "remove_by_metadata" /\ f.pc = 62 ->
            Goto(db, fl, [f EXCEPT !.to_remove = ToRemove(db, a[1], a[2])], 68)
      [] f.op = "remove_by_metadata" /\ f.pc = 68 ->
            IF f.to_remove = <<>> THEN Return(db, fl, f, None)
            ELSE Goto(db, fl, [f EXCEPT !.vector_id = Head(f.to_remove),
                                        !.to_remove = Tail(f.to_remove)], 55)
      [] f.pc = 55 ->
            Goto([db EXCEPT !.vectors = DictPop(@, vector_id)], fl, f, 56)
      [] f.pc = 56 ->
            Goto([db EXCEPT !.metadata = DictPop(@, vector_id)], fl, f, 57)
      [] f.pc = 57 ->
            IF f.op = "remove_by_metadata"
            THEN Goto([db EXCEPT !.index_dirty = TRUE], fl, f, 68)
            ELSE Return([db EXCEPT !.index_dirty = TRUE], fl, f, None)
      [] f.op = "load_from_file" /\ f.pc = 103 ->
            IF ~fl.exists THEN Return(db, fl, f, None) ELSE Goto(db, fl, f, 106)
      [] f.op = "load_from_file" /\ f.pc = 106 ->
            IF ~fl.json THEN Return(db, fl, f, "JSONDecodeError")
            ELSE Goto(db, fl, [f EXCEPT !.out = fl], 109)
      [] f.op = "load_from_file" /\ f.pc = 109 ->
            IF "dimension" \notin f.out.fields THEN Return(db, fl, f, "KeyError")
            ELSE Goto([db EXCEPT !.dimension = f.out.dimension], fl, f, 110)
      [] f.op = "load_from_file" /\ f.pc = 110 ->
            IF "vectors" \notin f.out.fields THEN Return(db, fl, f, "KeyError")
            ELSE Goto([db EXCEPT !.vectors =
                          [i \in 1..Len(f.out.vectors) |->
                             <<f.out.vectors[i][1], np_array(f.out.vectors[i][2])>>]],
                      fl, f, 111)
      [] f.op = "load_from_file" /\ f.pc = 111 ->
            IF "metadata" \notin f.out.fields THEN Return(db, fl, f, "KeyError")
            ELSE Goto([db EXCEPT !.metadata = f.out.metadata], fl, f, 112)
      [] f.op = "load_from_file" /\ f.pc = 112 ->
            Return([db EXCEPT !.index_dirty = FALSE], fl, [f EXCEPT !.out = <<>>], None)
      [] f.op = "search_similar" /\ f.pc = 28 ->
            IF Len(a[1]) # db.dimension
            THEN Return(db, fl, f, "ValueError") ELSE Goto(db, fl, f, 31)
      [] f.op = "search_similar" /\ f.pc = 31 ->
            IF Len(db.vectors) = 0 THEN Return(db, fl, f, None)
            ELSE Goto(db, fl, f, 37)
      [] f.op = "search_similar" /\ f.pc = 37 ->
            IF \E i \in 1..Len(db.vectors) : Len(db.vectors[i][2]) # Len(a[1])
            THEN Return(db, fl, f, "ValueError")
            ELSE Goto(db, fl, [f EXCEPT !.out = Similarities(db, a[1], a[3])], 49)
      [] f.op = "search_similar" /\ f.pc = 49 ->
            Return(db, fl, [f EXCEPT !.out = SliceTo(SortDescending(@), a[2])], None)
      [] f.op = "_keyword_search" /\ f.pc = 71 ->
            Goto(db, fl, f, 76)
      [] f.op = "_keyword_search" /\ f.pc = 76 ->
            Goto(db, fl, [f EXCEPT !.out = _keyword_search_uncut(self, db, a[1]).results],
                 84)
      [] f.op = "_keyword_search" /\ f.pc = 84 ->
            Return(db, fl, [f EXCEPT !.out = SliceTo(@, self.max_results)], None)
      [] f.op = "save_to_file" /\ f.pc = 90 ->
            Goto(db, fl, [f EXCEPT !.out = json_dump(db)], 96)
      [] f.op = "save_to_file" /\ f.pc = 96 ->
            Return(db, f.out, [f EXCEPT !.out = <<>>], None)

\* mutant: the thread may be handed over after every statement
AtAwait_every_statement(f) == TRUE

\* the coroutine is suspended at an await or has finished: the loop may run
\* another one
AtAwait(f) == f.at = "await"

NoLoop == [current |-> 0, co |-> <<>>]

\* a request arrives: the loop creates its coroutine, which has not run yet
StartCoroutine(c, op, args) ==
    /\ loop.current = 0
    /\ loop.co[c].op = "idle"
    /\ loop' = [loop EXCEPT !.co[c] = [IdleFrame EXCEPT !.op = op, !.args = args]]
    /\ UNCHANGED <<ctor_dimension, dimension, vectors, metadata, index_dirty,
                   file, chunker, task, agent, embedder, splitting, last>>

\* the loop resumes coroutine c, which enters the method it calls
Resume(c) ==
    LET f == loop.co[c] IN
    /\ loop.current \in {0, c}
    /\ f.op # "idle" /\ f.at = "await"
    /\ \E g \in {[f EXCEPT !.at = "call", !.pc = FirstLine(f.op),
                           !.entry = Self, !.entry_file = file]} :
          loop' = [current |-> IF AtAwait(g) THEN 0 ELSE c,
                   co |-> [loop.co EXCEPT ![c] = g]]
    /\ UNCHANGED <<ctor_dimension, dimension, vectors, metadata, index_dirty,
                   file, chunker, task, agent, embedder, splitting, last>>

\* coroutine c runs one statement; when the method returns the coroutine
\* finishes
Step(c) ==
    LET f == loop.co[c] IN
    /\ loop.current \in {0, c}
    /\ f.op # "idle" /\ f.at = "call"
    /\ \E r \in {Statement(agent, Self, file, f)} :
          /\ Assign(r.db)
          /\ file' = r.file
          /\ loop' = IF r.returned
                     THEN [current |-> 0, co |-> [loop.co EXCEPT ![c] = IdleFrame]]
                     ELSE [current |-> IF AtAwait(r.f) THEN 0 ELSE c,
                           co |-> [loop.co EXCEPT ![c] = r.f]]
    /\ UNCHANGED <<ctor_dimension, chunker, task, agent, embedder, splitting, last>>

(***************************************************************************)
(* Inputs.  Three specifications share the actions and differ in the       *)
(* calls they make and the sets the arguments are drawn from:              *)
(*   Spec        the calls that change the index in memory;                *)
(*   SpecSearch  inserts, removes and searches;                            *)
(*   SpecFile    the index together with its snapshot file.                *)
(***************************************************************************)
MaxTopK == 2

Ids == {"a", "b", "c"}

Vectors == {<<1, 0, 0>>, <<0, 1, 0>>, <<1, 1, 0>>, <<1, 0>>}

MetaV1 == [source_id |-> "v1", content |-> "x"]

MetaV2 == [source_id |-> "v2"]

Queries == {<<1, 0, 0>>, <<1, 1, 0>>, <<-1, 0, 0>>, <<0, 0, 0>>, <<1, 0>>}

TopKs == 0..MaxTopK

Thresholds == {Rational(0, 1), Rational(1, 5), Rational(3, 4)}

Init ==
    /\ ctor_dimension \in {2, 3}
    /\ dimension = ctor_dimension
    /\ vectors = EmptyDict
    /\ metadata = EmptyDict
    /\ index_dirty = FALSE
    /\ file = NoFile
    /\ chunker = NewTextChunker
    /\ task = NoTask
    /\ agent = NewSearchAgent
    /\ embedder = NoEmbedder
    /\ loop = NoLoop
    /\ splitting = NoSplit
    /\ last = Call("__init__", <<>>, None, <<>>)

Next ==
    \/ \E vector_id \in Ids, vector \in Vectors, meta \in {MetaV1, MetaV2} :
          AddVector(vector_id, vector, meta)
    \/ \E vector_id \in Ids : RemoveVector(vector_id)
    \/ \E key \in {"source_id", "content"}, value \in {"v1", "v2", "x"} : RemoveByMetadata(key, value)
    \/ Clear

Spec == Init /\ [][Next]_vars

NextSearch ==
    \/ \E vector_id \in Ids, vector \in Vectors, meta \in {MetaV2} :
          AddVector(vector_id, vector, meta)
    \/ \E vector_id \in Ids : RemoveVector(vector_id)
    \/ \E query_vector \in Queries, top_k \in TopKs, threshold \in Thresholds :
          SearchSimilar(query_vector, top_k, threshold)

SpecSearch == Init /\ [][NextSearch]_vars

FileIds == {"a", "b"}

\* a file with the given text, written by another process
External(json, fields, dim, vecs, metas) ==
    [exists |-> TRUE, json |-> json, fields |-> fields, dimension |-> dim,
     vectors |-> vecs, metadata |-> metas,
     origin |-> "external", saved |-> NewDatabase(0)]

ExternalFiles ==
    { External(FALSE, {}, 0, EmptyDict, EmptyDict),
      External(TRUE, {}, 0, EmptyDict, EmptyDict),
      External(TRUE, {"dimension"}, 2, EmptyDict, EmptyDict),
      External(TRUE, {"dimension", "vectors"}, 2, <<<<"b", <<1, 0>>>>>>, EmptyDict),
      External(TRUE, {"vectors", "metadata"}, 0,
               <<<<"b", <<1, 0>>>>>>, <<<<"b", MetaV2>>>>),
      External(TRUE, SnapshotFields, 2,
               <<<<"a", <<1, 0>>>>>>, <<<<"a", MetaV2>>>>) }

NextFile ==
    \/ \E vector_id \in FileIds, vector \in {<<1, 0, 0>>, <<1, 1, 0>>, <<1, 0>>}, meta \in {MetaV1, MetaV2} :
          AddVector(vector_id, vector, meta)
    \/ \E vector_id \in FileIds : RemoveVector(vector_id)
    \/ \E value \in {"v2"} : RemoveByMetadata("source_id", value)
    \/ Clear
    \/ SaveToFile
    \/ LoadFromFile
    \/ \E f \in ExternalFiles : WriteExternalFile(f)

SpecFile == Init /\ [][NextFile]_vars

(***************************************************************************)
(* The chunker's inputs.  SpecChunk hands one chunk_text task to a chunker *)
(* whose chunk_size and chunk_overlap are set to small values, over every  *)
(* transcript of up to MaxTextLen characters; SpecStamp hands a short      *)
(* transcript with a list of transcript entries to the chunker as          *)
(* constructed.                                                            *)
(***************************************************************************)
MaxTextLen == 6

TextChars == {"a", "b", " ", "\n"}

Texts == UNION {[1..n -> TextChars] : n \in 0..MaxTextLen}

ChunkConfigs ==
    { [NewTextChunker EXCEPT !.chunk_size = 4, !.chunk_overlap = 1],
      [NewTextChunker EXCEPT !.chunk_size = 4, !.chunk_overlap = 2],
      [NewTextChunker EXCEPT !.chunk_size = 3, !.chunk_overlap = 0] }

ChunkTask(transcript) ==
    [keys |-> {"type", "transcript"}, type |-> "chunk_text",
     transcript |-> transcript, raw_transcript |-> <<>>]

ChunkTasks ==
    {ChunkTask(t) : t \in Texts \cup { <<"a", ".", " ", "a", "a", ".", " ", "a", "a">>, <<"A", "a", ".", " ", "a", " ", "a", "?", " ", "a">> }}
      \cup {[ChunkTask(<<>>) EXCEPT !.keys = {"type"}]}

InitChunk ==
    /\ ctor_dimension \in {2}
    /\ dimension = ctor_dimension
    /\ vectors = EmptyDict
    /\ metadata = EmptyDict
    /\ index_dirty = FALSE
    /\ file = NoFile
    /\ chunker \in ChunkConfigs
    /\ task \in ChunkTasks
    /\ agent = NewSearchAgent
    /\ embedder = NoEmbedder
    /\ loop = NoLoop
    /\ splitting = NoSplit
    /\ last = Call("__init__", <<>>, None, <<>>)

SpecChunk == InitChunk /\ [][ChunkText]_vars

MaxSegments == 2

StampTexts ==
    { <<"a", " ", "b", " ", "c", " ", "d", " ", "e", " ", "f">>,
      <<"A", " ", "b">> }

\* start times of 1.5 s and of 1 h 1.5 s, a duration of 2.6 s
SegmentStarts == {15, 36015}

Segment(keys, text, text_is_str, start) ==
    [keys |-> keys, text |-> text, text_is_str |-> text_is_str,
     start |-> start, duration |-> 26]

\* the entries of raw_transcript: dicts with or without their keys, and
\* dicts whose 'text' is not a str (None, a number)
Segments ==
    {Segment(k, t, TRUE, st) : k \in ({ {"text", "start", "duration"}, {"text", "start"}, {"text", "duration"}, {"start", "duration"}, {} }), t \in { <<"A", " ", "b", " ", "c", " ", "d", " ", "e">>, <<"b", " ", "c", " ", "d", " ", "e", " ", "f">>, <<"x">> }, st \in SegmentStarts}
      \cup {Segment({"text", "start", "duration"}, <<>>, FALSE, st) : st \in SegmentStarts}

SegmentLists == UNION {[1..n -> Segments] : n \in 0..MaxSegments}

StampTasks ==
    {[ChunkTask(t) EXCEPT !.keys = {"type", "transcript", "raw_transcript"},
                          !.raw_transcript = raw] :
        t \in StampTexts, raw \in SegmentLists}
      \cup {ChunkTask(t) : t \in StampTexts}

InitStamp ==
    /\ ctor_dimension \in {2}
    /\ dimension = ctor_dimension
    /\ vectors = EmptyDict
    /\ metadata = EmptyDict
    /\ index_dirty = FALSE
    /\ file = NoFile
    /\ chunker = NewTextChunker
    /\ task \in StampTasks
    /\ agent = NewSearchAgent
    /\ embedder = NoEmbedder
    /\ loop = NoLoop
    /\ splitting = NoSplit
    /\ last = Call("__init__", <<>>, None, <<>>)

SpecStamp == InitStamp /\ [][ChunkText]_vars

(***************************************************************************)
(* The search agent's inputs.  SpecAgent fills the shared index with       *)
(* entries whose content is text and hands search tasks to the agent,      *)
(* whose max_results is 15 as constructed or set to 1, with and without a  *)
(* re-rank model, the provider answering or failing request by request.    *)
(***************************************************************************)
AgentIds == {"a", "b"}

AgentMetaAb == [source_id |-> "v1", content |-> <<"A", "b">>]

AgentMetaB == [source_id |-> "v1", content |-> <<"b">>]

\* the (vector, metadata) pairs stored
AgentEntries ==
    { <<<<1, 0>>, AgentMetaAb>>, <<<<3, 4>>, AgentMetaB>>,
      <<<<0, 1>>, AgentMetaB>>,  <<<<1, 0>>, MetaV2>> }

AgentConfigs ==
    { NewSearchAgent,
      [NewSearchAgent EXCEPT !.max_results = 1],
      [NewSearchAgent EXCEPT !.max_results = 1, !.rerank_model = ""] }

SearchTask(query, search_type) ==
    [keys |-> {"type", "query", "search_type"}, type |-> "search",
     query |-> query, search_type |-> search_type]

SearchQueries == { <<"B">>, <<" ", "a">> }

KeywordTasks == {SearchTask(q, "keyword") : q \in SearchQueries}

EmbeddingTasks ==
    {SearchTask(q, st) : q \in SearchQueries, st \in {"semantic", "hybrid"}}
      \cup {[SearchTask(<<"B">>, "hybrid") EXCEPT !.keys = {"type", "query"}]}

\* tasks that are no searches
OtherTasks ==
    { [SearchTask(<<>>, "hybrid") EXCEPT !.type = "update_search_index"],
      [SearchTask(<<>>, "hybrid") EXCEPT !.type = "chunk_text"] }

\* searches whose query is whitespace, empty or missing
BlankTasks ==
    {SearchTask(<<" ">>, st) : st \in {"keyword", "semantic", "hybrid"}}
      \cup { SearchTask(<<>>, "hybrid"),
             SearchTask(<<"\n", " ">>, "keyword"),
             [SearchTask(<<>>, "semantic") EXCEPT !.keys = {"type", "search_type"}] }

NoProvider ==
    [query |-> ProviderError, rerank_query |-> ProviderError,
     rerank_chunks |-> [id \in AgentIds |-> ProviderError]]

Providers ==
    {NoProvider}
      \cup {[query |-> Embedded(q), rerank_query |-> ProviderError,
             rerank_chunks |-> [id \in AgentIds |-> ProviderError]] :
               q \in {<<1, 0>>, <<3, 4>>}}
      \cup {[query |-> Embedded(q), rerank_query |-> Embedded(<<1, 0>>),
             rerank_chunks |-> c] :
               q \in {<<1, 0>>, <<3, 4>>},
               c \in [AgentIds -> {Embedded(<<0, 1>>), ProviderError}]}

InitAgent ==
    /\ ctor_dimension \in {2}
    /\ dimension = ctor_dimension
    /\ vectors = EmptyDict
    /\ metadata = EmptyDict
    /\ index_dirty = FALSE
    /\ file = NoFile
    /\ chunker = NewTextChunker
    /\ task = NoTask
    /\ agent \in AgentConfigs
    /\ embedder = NoEmbedder
    /\ loop = NoLoop
    /\ splitting = NoSplit
    /\ last = Call("__init__", <<>>, None, <<>>)

NextAgent ==
    \/ \E vector_id \in AgentIds, e \in AgentEntries : AddVector(vector_id, e[1], e[2])
    \/ \E vector_id \in AgentIds : RemoveVector(vector_id)
    \/ \E t \in KeywordTasks \cup OtherTasks : Search(t, NoProvider)
    \/ \E t \in BlankTasks, provider \in {NoProvider, ([NoProvider EXCEPT !.query = Embedded(<<1, 0>>)])} :
          Search(t, provider)
    \/ \E t \in EmbeddingTasks, provider \in Providers : Search(t, provider)

SpecAgent == InitAgent /\ [][NextAgent]_vars

(***************************************************************************)
(* SpecLoop: the coroutines of the event loop, each making one call on the *)
(* shared index, statement by statement.                                   *)
(***************************************************************************)
MaxCoroutines == 2

Coroutines == 1..MaxCoroutines

\* the calls a coroutine makes: the method and its arguments
LoopRequests ==
    { <<"add_vector", <<"a", <<1, 0>>, ([source_id |-> "v1", content |-> <<"a">>])>>>>,
      <<"add_vector", <<"b", <<0, 1>>, ([source_id |-> "v1", content |-> <<"a">>])>>>>,
      <<"remove_vector", <<"a">>>>,
      <<"remove_by_metadata", <<"source_id", "v1">>>>,
      <<"load_from_file", <<>>>>,
      <<"search_similar", <<<<1, 0>>, 1, Rational(0, 1)>>>>,
      <<"_keyword_search", <<<<"a">>>>>>,
      <<"save_to_file", <<>>>> }

InitLoop ==
    /\ ctor_dimension \in {2}
    /\ dimension = ctor_dimension
    /\ vectors = EmptyDict
    /\ metadata = EmptyDict
    /\ index_dirty = FALSE
    /\ file = NoFile
    /\ chunker = NewTextChunker
    /\ task = NoTask
    /\ agent = NewSearchAgent
    /\ embedder = NoEmbedder
    /\ loop = [NoLoop EXCEPT !.co = [c \in Coroutines |-> IdleFrame]]
    /\ splitting = NoSplit
    /\ last = Call("__init__", <<>>, None, <<>>)

NextLoop ==
    \/ \E c \in Coroutines, r \in LoopRequests : StartCoroutine(c, r[1], r[2])
    \/ \E c \in Coroutines : Resume(c)
    \/ \E c \in Coroutines : Step(c)

SpecLoop == InitLoop /\ [][NextLoop]_vars

(***************************************************************************)
(* SpecEmbed: sources are indexed by add_vector under the ids              *)
(* "{youtube_id}_{chunk_index}" and (re-)processed by embed_video_chunks;  *)
(* keyword searches read the shared index.                                 *)
(***************************************************************************)
MaxChunks == 2

Sources == {<<"v">>, <<"w">>}

Chunk(i) == [content |-> (<<<<"x">>, <<"y">>>>)[(i % 2) + 1], chunk_index |-> i]

\* the create_embeddings tasks: a source and its passages 0 .. n-1
EmbedTasks ==
    {[keys |-> {"type", "chunks", "youtube_id"}, type |-> "create_embeddings",
      chunks |-> [i \in 1..n |-> Chunk(i - 1)], youtube_id |-> s] :
        s \in Sources, n \in 0..MaxChunks}

EmbedProviders ==
    { [text \in {<<"x">>, <<"y">>} |-> Embedded(<<1, 0>>)],
      [text \in {<<"x">>, <<"y">>} |-> IF text = <<"x">> THEN Embedded(<<0, 1>>)
                                                      ELSE ProviderError],
      [text \in {<<"x">>, <<"y">>} |-> ProviderError] }

InitEmbed ==
    /\ ctor_dimension \in {2}
    /\ dimension = ctor_dimension
    /\ vectors = EmptyDict
    /\ metadata = EmptyDict
    /\ index_dirty = FALSE
    /\ file = NoFile
    /\ chunker = NewTextChunker
    /\ task = NoTask
    /\ agent = NewSearchAgent
    /\ embedder = NoEmbedder
    /\ loop = NoLoop
    /\ splitting = NoSplit
    /\ last = Call("__init__", <<>>, None, <<>>)

NextEmbed ==
    \/ \E s \in Sources, i \in 0..(MaxChunks - 1) :
          AddVector(ChunkId(s, Chunk(i)), <<1, 0>>,
                    [youtube_id |-> s, content |-> Chunk(i).content])
    \/ \E t \in EmbedTasks, provider \in EmbedProviders : EmbedVideoChunks(t, provider)
    \/ \E q \in {<<"x">>, <<"y">>} : Search(SearchTask(q, "keyword"), NoProvider)

SpecEmbed == InitEmbed /\ [][NextEmbed]_vars

(***************************************************************************)
(* SpecSplit: _split_by_characters on every text of the pool, blanks       *)
(* included, at every chunk_size > 0 and 0 <= chunk_overlap < chunk_size,  *)
(* one iteration of its loop at a time.  The loop is sequential code: an   *)
(* iteration that can run does run.                                        *)
(***************************************************************************)
MaxSplitLen == 7

MaxChunkSize == 4

RECURSIVE SplitTextsOf(_)
SplitTextsOf(n) ==
    IF n = 0 THEN {<<>>}
    ELSE SplitTextsOf(n - 1)
           \cup {Append(t, c) : t \in {u \in SplitTextsOf(n - 1) : Len(u) = n - 1},
                                c \in {"a", " "}}

SplitConfigs ==
    {[NewTextChunker EXCEPT !.chunk_size = size, !.chunk_overlap = overlap] :
        size \in 1..MaxChunkSize, overlap \in 0..(MaxChunkSize - 1)}
      \ {c \in {[NewTextChunker EXCEPT !.chunk_size = size, !.chunk_overlap = overlap] :
                    size \in 1..MaxChunkSize, overlap \in 0..(MaxChunkSize - 1)} :
            c.chunk_overlap >= c.chunk_size}

InitSplit ==
    /\ ctor_dimension \in {2}
    /\ dimension = ctor_dimension
    /\ vectors = EmptyDict
    /\ metadata = EmptyDict
    /\ index_dirty = FALSE
    /\ file = NoFile
    /\ chunker \in SplitConfigs
    /\ task = NoTask
    /\ agent = NewSearchAgent
    /\ embedder = NoEmbedder
    /\ loop = NoLoop
    /\ \E text \in (SplitTextsOf(MaxSplitLen)) : splitting = EnterSplit(text)
    /\ last = Call("__init__", <<>>, None, <<>>)

SpecSplit == InitSplit /\ [][SplitIterate]_vars /\ WF_vars(SplitIterate)

(***************************************************************************)
(* Properties of search_similar, checked under SpecSearch                  *)
(***************************************************************************)
Searched == last.op = "search_similar"

IdsOf(results) == [i \in 1..Len(results) |-> results[i].id]

\* the positions of the stored vectors whose similarity to the query passes
Passing(query_vector, threshold) ==
    {i \in 1..Len(vectors) :
        SimGE(_cosine_similarity(query_vector, vectors[i][2]), threshold)}

\* the ranking: higher similarity first, the earlier inserted id first among equals
RanksBefore(id1, sim1, id2, sim2) ==
    \/ SimGT(sim1, sim2)
    \/ sim1 = sim2 /\ Pos(vectors, id1) < Pos(vectors, id2)

\* C1: a search with a query of length D raises nothing, returns at most
\* top_k results, and every result has similarity >= threshold.
C1_SearchBounded ==
    (Searched /\ Len(last.args[1]) = dimension) =>
        /\ last.err = None
        /\ Len(last.out) <= last.args[2]
        /\ \A i \in 1..Len(last.out) : SimGE(last.out[i].similarity, last.args[3])

\* a search over three stored vectors of which two pass the threshold and
\* one is returned
C1_Witness ==
    /\ Searched /\ last.err = None
    /\ Len(vectors) = 3
    /\ Cardinality(Passing(last.args[1], last.args[3])) = 2
    /\ last.args[2] = 1
    /\ Len(last.out) = 1

\* C2: the result is ordered by similarity descending, among equal
\* similarities by insertion order of the id, and it is the first top_k
\* entries of that order over the stored vectors that pass the threshold;
\* with a, b, c = (1,0,0), (0,1,0), (1,1,0), query (1,0,0), top_k 2 and
\* threshold 0 the result is [a (1), c (1/sqrt 2)].
C2_SearchOrdered ==
    (Searched /\ last.err = None) =>
        LET q    == last.args[1]
            k    == last.args[2]
            t    == last.args[3]
            out  == last.out
            pass == Passing(q, t)
        IN  /\ Len(out) = (IF k < Cardinality(pass) THEN k ELSE Cardinality(pass))
            /\ \A i \in 1..Len(out) :
                  /\ DictHas(vectors, out[i].id)
                  /\ Pos(vectors, out[i].id) \in pass
                  /\ out[i].similarity =
                        _cosine_similarity(q, DictGet(vectors, out[i].id, <<>>))
            /\ \A i, j \in 1..Len(out) :
                  i < j => RanksBefore(out[i].id, out[i].similarity,
                                       out[j].id, out[j].similarity)
            /\ \A p \in pass : \A j \in 1..Len(out) :
                  (\A i \in 1..Len(out) : out[i].id # vectors[p][1]) =>
                      RanksBefore(out[j].id, out[j].similarity, vectors[p][1],
                                  _cosine_similarity(q, vectors[p][2]))
            /\ ( /\ DictKeys(vectors) = <<"a", "b", "c">>
                 /\ [i \in 1..3 |-> vectors[i][2]]
                       = << <<1, 0, 0>>, <<0, 1, 0>>, <<1, 1, 0>> >>
                 /\ q = <<1, 0, 0>> /\ k = 2 /\ t = Rational(0, 1) )
               => /\ IdsOf(out) = <<"a", "c">>
                  /\ out[1].similarity = Rational(1, 1)
                  /\ out[2].similarity = SignedRoot(1, 2)

\* two results of equal similarity, returned in insertion order although the
\* id inserted first is the greater one
C2_Witness ==
    /\ Searched /\ last.err = None
    /\ Len(last.out) = 2
    /\ last.out[1].similarity = last.out[2].similarity
    /\ last.out[1].similarity # Rational(0, 1)
    /\ last.out[1].id = "b" /\ last.out[2].id = "a"
    /\ Len(vectors) = 3

\* the scenario of C2 is reached
C2_Scenario ==
    /\ Searched
    /\ DictKeys(vectors) = <<"a", "b", "c">>
    /\ [i \in 1..3 |-> vectors[i][2]] = << <<1, 0, 0>>, <<0, 1, 0>>, <<1, 1, 0>> >>
    /\ last.args = << <<1, 0, 0>>, 2, Rational(0, 1) >>
    /\ IdsOf(last.out) = <<"a", "c">>

(***************************************************************************)
(* Properties of the calls that change the index, checked under Spec       *)
(***************************************************************************)
Added == last.op = "add_vector"

\* the entries of a dict other than the one of key k are the same in d1 and d2
SameApartFrom(d1, d2, k) ==
    /\ DictPop(d1, k) = DictPop(d2, k)

\* C3: add_vector with a vector whose length is not D raises the
\* dimension-mismatch error and changes nothing of the index.
C3_MismatchRejected ==
    [][ (last'.op = "add_vector" /\ Len(last'.args[2]) # dimension) =>
            /\ last'.err = "ValueError"
            /\ vectors' = vectors
            /\ metadata' = metadata
            /\ dimension' = dimension
            /\ index_dirty' = index_dirty ]_vars

\* a rejected insert into an index that holds entries, under an id it holds
C3_Witness ==
    /\ Added /\ last.err = "ValueError"
    /\ Len(last.args[2]) # dimension
    /\ Len(vectors) >= 2
    /\ DictHas(vectors, last.args[1])

\* C5: add_vector under an id the index holds replaces the entry by exactly
\* (v, m), keeps every other entry, the number of entries and their order;
\* an insert repeated with the same arguments changes nothing.
C5_Overwrite ==
    [][ (last'.op = "add_vector" /\ last'.err = None) =>
          LET id == last'.args[1]
              v  == last'.args[2]
              m  == last'.args[3]
          IN  /\ DictGet(vectors', id, <<>>) = v
              /\ DictHas(metadata', id) /\ DictGet(metadata', id, EmptyMeta) = m
              /\ SameApartFrom(vectors, vectors', id)
              /\ SameApartFrom(metadata, metadata', id)
              /\ DictHas(vectors, id) =>
                    /\ Len(vectors') = Len(vectors)
                    /\ Len(metadata') = Len(metadata)
                    /\ DictKeys(vectors') = DictKeys(vectors)
                    /\ get_stats(Self)'.total_vectors = get_stats(Self).total_vectors
              /\ (last.op = "add_vector" /\ last.err = None /\ last.args = last'.args) =>
                    /\ vectors' = vectors
                    /\ metadata' = metadata
                    /\ get_stats(Self)' = get_stats(Self) ]_vars

\* an insert under an id the index held, with other entries beside it, whose
\* metadata has fewer keys than the pool's largest
C5_Witness ==
    /\ Added /\ last.err = None
    /\ last.out[1] = TRUE
    /\ Len(vectors) = 3
    /\ last.args[3] = MetaV2

\* C6 (as claimed): remove_vector of an absent id raises nothing and leaves
\* the stored entries and the statistics of get_stats as they were.
C6_RemoveAbsentNoOp ==
    [][ (last'.op = "remove_vector" /\ ~DictHas(vectors, last'.args[1])) =>
            /\ last'.err = None
            /\ vectors' = vectors
            /\ metadata' = metadata
            /\ get_stats(Self)' = get_stats(Self) ]_vars

C7_LacksKey ==
    /\ last.op = "remove_by_metadata"
    /\ last.args = <<"content", "x">>
    /\ Len(last.out) >= 1
    /\ Len(metadata) >= 1
    /\ \A i \in 1..Len(metadata) : "content" \notin DOMAIN metadata[i][2]

(***************************************************************************)
(* Properties of the index with its snapshot file, checked under SpecFile  *)
(***************************************************************************)
Loaded == last.op = "load_from_file"

\* the ids and similarities of a search, in order, and the exception
Outcome(r) ==
    [err |-> r.err,
     res |-> [i \in 1..Len(r.res) |->
                [id |-> r.res[i].id, similarity |-> r.res[i].similarity]]]

\* C4 (as claimed): every stored vector has the length of the index's
\* dimension, whatever calls were made.
C4_StoredVectorsHaveDimension ==
    \A i \in 1..Len(vectors) : Len(vectors[i][2]) = dimension

C9_IncompatibleDimensionFails ==
    (Loaded /\ file.exists /\ file.json /\ "dimension" \in file.fields
            /\ file.dimension # ctor_dimension) =>
        last.err # None

\* C10 (as claimed): a load_from_file that raises leaves dimension, vectors
\* and metadata as they were.
C10_FailedLoadChangesNothing ==
    [][ (last'.op = "load_from_file" /\ last'.err # None) =>
            /\ dimension' = dimension
            /\ vectors' = vectors
            /\ metadata' = metadata ]_vars

\* C11: load_from_file on a path where no file exists raises nothing and
\* leaves the dimension, the vectors, the metadata and the dirty flag of the
\* index as they were; an empty index stays empty.
C11_MissingFileNoOp ==
    [][ (last'.op = "load_from_file" /\ ~file.exists) =>
            /\ last'.err = None
            /\ dimension' = dimension
            /\ vectors' = vectors
            /\ metadata' = metadata
            /\ index_dirty' = index_dirty ]_vars

\* a load from a missing path made on an index that holds a vector and has
\* unrebuilt changes
C11_Witness ==
    /\ Loaded /\ ~file.exists
    /\ Len(vectors) >= 1 /\ index_dirty

\* the first-run bootstrap: a load from a missing path on the empty index
C11_Bootstrap ==
    /\ Loaded /\ ~file.exists
    /\ vectors = EmptyDict /\ metadata = EmptyDict

(***************************************************************************)
(* Properties of the chunker, checked under SpecChunk                      *)
(***************************************************************************)
Chunked == last.op = "chunk_text"

Passages == [i \in 1..Len(last.out) |-> last.out[i].content]

HasSeparator(text) ==
    \E k \in 1..Len(chunker.separators) : Contains(text, chunker.separators[k])

\* the passage holds a run of more than chunk_size characters with no
\* separator in it
HasOversizedUnit(passage) ==
    \E i \in 1..Len(passage) : \E j \in i..Len(passage) :
        /\ j - i + 1 > chunker.chunk_size
        /\ ~HasSeparator(SubSeq(passage, i, j))

\* C12 (as claimed): of a transcript longer than chunk_size that contains a
\* separator, every passage has at most chunk_size characters, unless the
\* passage holds a unit longer than chunk_size with no separator in it.
C12_PassagesWithinChunkSize ==
    (/\ Chunked /\ last.err = None
     /\ Len(task.transcript) > chunker.chunk_size
     /\ HasSeparator(task.transcript)) =>
        \A i \in 1..Len(Passages) :
            \/ Len(Passages[i]) <= chunker.chunk_size
            \/ HasOversizedUnit(Passages[i])

\* C13 (as claimed): a transcript of at most chunk_size characters (and not
\* blank) gives exactly one passage, whose content is the transcript
\* stripped of leading and trailing whitespace.
C13_ShortTranscriptOnePassage ==
    (/\ Chunked /\ "transcript" \in task.keys
     /\ Len(task.transcript) <= chunker.chunk_size
     /\ strip(task.transcript) # <<>>) =>
        /\ last.err = None
        /\ Len(Passages) = 1
        /\ Passages[1] = strip(task.transcript)

HasWordBoundary(text) == \E k \in 1..Len(text) : text[k] \in Whitespace

\* passage q begins with a non-empty piece of the text tail
RepeatsPieceOf(tail, q) ==
    \E i \in 1..Len(tail) : \E j \in i..Len(tail) : MatchAt(q, SubSeq(tail, i, j), 0)

\* C14 (as claimed): of a transcript longer than chunk_size, chunk_overlap
\* being positive, each passage whose last chunk_overlap characters hold a
\* word boundary is followed by a passage that begins with a non-empty
\* piece of those characters.
C14_AdjacentPassagesOverlap ==
    (/\ Chunked /\ last.err = None
     /\ Len(task.transcript) > chunker.chunk_size
     /\ chunker.chunk_overlap > 0) =>
        \A i \in 1..(Len(Passages) - 1) :
            LET tail == LastChars(Passages[i], chunker.chunk_overlap)
            IN  HasWordBoundary(tail) => RepeatsPieceOf(tail, Passages[i + 1])

\* C15 (as claimed): a chunk_text task whose transcript is missing, empty or
\* whitespace only raises the invalid-input error (ValueError) and gives no
\* passage.
C15_BlankTranscriptRejected ==
    (/\ Chunked
     /\ "transcript" \notin task.keys \/ strip(task.transcript) = <<>>) =>
        /\ last.err = "ValueError"
        /\ last.out = <<>>

(***************************************************************************)
(* Properties of the passages' timestamps, checked under SpecStamp         *)
(***************************************************************************)
\* the task without its raw_transcript
WithoutSegments == [task EXCEPT !.keys = @ \ {"raw_transcript"}]

RawTranscript == IF "raw_transcript" \in task.keys THEN task.raw_transcript ELSE <<>>

\* C16 (as claimed): a chunk_text task that succeeds without raw_transcript
\* succeeds with any raw_transcript and gives the same passages; with an
\* absent or empty raw_transcript every passage has the times "00:00".
C16_SegmentsNeverFail ==
    (Chunked /\ process_task(chunker, WithoutSegments).err = None) =>
        /\ last.err = None
        /\ Passages = [i \in 1..Len(process_task(chunker, WithoutSegments).chunks) |->
                          process_task(chunker, WithoutSegments).chunks[i].content]
        /\ RawTranscript = <<>> =>
              \A i \in 1..Len(last.out) :
                  last.out[i].start_time = ZeroTime /\ last.out[i].end_time = ZeroTime

\* the entries whose lowercased text contains the phrase
SegmentsWith(phrase) ==
    {k \in 1..Len(RawTranscript) :
        /\ "text" \in RawTranscript[k].keys
        /\ Contains(lower(RawTranscript[k].text), phrase)}

\* the time a boundary resolves to: pick(entry) of the first entry that
\* contains the phrase, "00:00" if no entry does
Resolved(phrase, pick(_)) ==
    IF SegmentsWith(phrase) = {} THEN ZeroTime
    ELSE LET k == CHOOSE k \in SegmentsWith(phrase) : \A j \in SegmentsWith(phrase) : k <= j
         IN  _format_timestamp(pick(RawTranscript[k]))

StartOf(entry) == EntryGet(entry, "start")

EndOf(entry) == EntryGet(entry, "start") + EntryGet(entry, "duration")

\* C17 (as claimed): each boundary of a passage is resolved by itself:
\* start_time from the first entry containing the passage's first 5 words,
\* end_time (start + duration) from the first entry containing its last 5
\* words, whether or not the first words were found; a boundary with no
\* matching entry is "00:00".
C17_BoundariesIndependent ==
    (Chunked /\ last.err = None /\ RawTranscript # <<>>) =>
        \A i \in 1..Len(last.out) :
            LET words == split_whitespace(last.out[i].content)
            IN  /\ last.out[i].start_time =
                      Resolved(lower(join(<<" ">>, FirstItems(words, 5))), StartOf)
                /\ last.out[i].end_time =
                      Resolved(lower(join(<<" ">>, LastItems(words, 5))), EndOf)

\* a passage whose first words no entry contains and whose last words an
\* entry does contain
C17_OnlyEndMatches ==
    /\ Chunked /\ last.err = None /\ Len(last.out) = 1
    /\ LET words == split_whitespace(last.out[1].content)
       IN  /\ SegmentsWith(lower(join(<<" ">>, FirstItems(words, 5)))) = {}
           /\ SegmentsWith(lower(join(<<" ">>, LastItems(words, 5)))) # {}

(***************************************************************************)
(* Properties of the search agent, checked under SpecAgent                 *)
(***************************************************************************)
\* the last call was a search task with a query, of the given search type
\* ("hybrid" is every type that is neither "keyword" nor "semantic")
Mode(search_type) ==
    /\ last.op = "search"
    /\ "type" \in task.keys /\ task.type = "search"
    /\ QueryOf(task) # <<>>
    /\ IF search_type = "hybrid"
       THEN SearchTypeOf(task) \notin {"keyword", "semantic"}
       ELSE SearchTypeOf(task) = search_type

Results == last.out.results

ResultIds == {Results[i].id : i \in 1..Len(Results)}

\* the provider's answers during the last search
Provider == last.args[1]

\* the ids the keyword search and the semantic search of the last task give
KeywordIds ==
    LET kw == _keyword_search(agent, Self, QueryOf(task)).results
    IN  {kw[k].id : k \in 1..Len(kw)}

SemanticIds ==
    LET sem == _semantic_search(agent, Self, QueryOf(task), Provider).results
    IN  {sem[k].id : k \in 1..Len(sem)}

Smaller(a, b) == IF a < b THEN a ELSE b

\* C18: a hybrid search returns each id once; an id the semantic search
\* found comes with its cosine similarity to the query's embedding, also if
\* the keyword search found it too; an id only the keyword search found
\* comes with similarity 1.0; the results are the union of the two, in
\* descending order of similarity, cut to max_results.
C18_HybridUnion ==
    (Mode("hybrid") /\ last.err = None) =>
        /\ \A i, j \in 1..Len(Results) : Results[i].id = Results[j].id => i = j
        /\ ResultIds \subseteq SemanticIds \cup KeywordIds
        /\ \A i \in 1..Len(Results) :
              IF Results[i].id \in SemanticIds
              THEN Results[i].similarity =
                     _cosine_similarity(Provider.query.embedding,
                                        DictGet(vectors, Results[i].id, <<>>))
              ELSE Results[i].similarity = Rational(1, 1)
        /\ \A i, j \in 1..Len(Results) :
              i < j => SimGE(Results[i].similarity, Results[j].similarity)
        /\ last.out.total_results = Cardinality(SemanticIds \cup KeywordIds)
        /\ Len(Results) = Smaller(agent.max_results, last.out.total_results)

\* a hybrid search whose first result only the keyword search found and
\* whose second result both searches found, with a similarity below 1.0
C18_Witness ==
    /\ Mode("hybrid") /\ last.err = None
    /\ Len(Results) = 2
    /\ Results[1].id \in KeywordIds \ SemanticIds
    /\ Results[2].id \in KeywordIds \cap SemanticIds
    /\ SimGT(Rational(1, 1), Results[2].similarity)

\* a hybrid search whose union is cut to max_results
C18_Cut ==
    /\ Mode("hybrid") /\ last.err = None
    /\ last.out.total_results > agent.max_results
    /\ Len(Results) = agent.max_results

\* C19: a keyword search returns at most max_results entries, each of them
\* stored with a content that contains the query when the case of letters
\* is ignored, each with similarity 1.0, in the order of the index.
C19_KeywordSearch ==
    Mode("keyword") =>
        /\ last.err = None
        /\ Len(Results) <= agent.max_results
        /\ \A i \in 1..Len(Results) :
              /\ DictHas(metadata, Results[i].id)
              /\ Contains(lower(ContentOf(DictGet(metadata, Results[i].id, EmptyMeta))),
                          lower(QueryOf(task)))
              /\ Results[i].similarity = Rational(1, 1)
        /\ \A i, j \in 1..Len(Results) :
              i < j => Pos(metadata, Results[i].id) < Pos(metadata, Results[j].id)

\* a keyword search for "B" with two matches, cut to one: the first entry
\* of the index, whose content holds the query in lower case
C19_Witness ==
    /\ Mode("keyword") /\ QueryOf(task) = <<"B">>
    /\ last.out.total_results = 2
    /\ agent.max_results = 1 /\ Len(Results) = 1
    /\ Results[1].id = metadata[1][1]

\* a keyword search that passes over an entry: the index holds an entry
\* without the query in its content before one with it
C19_PassedOver ==
    /\ Mode("keyword") /\ Len(metadata) = 2
    /\ Len(Results) = 1
    /\ Results[1].id = metadata[2][1]

\* C20: a semantic or hybrid search during which the provider fails to
\* embed the query ends with an error and returns no result, also when
\* the keyword search of a hybrid search had found matches.
C20_EmbeddingFailureIsError ==
    ((Mode("semantic") \/ Mode("hybrid")) /\ ~Provider.query.ok) =>
        /\ last.err # None
        /\ Results = <<>>
        /\ last.out.total_results = 0

\* a hybrid search during which the provider failed, the keyword search
\* having found matches
C20_Witness ==
    /\ Mode("hybrid") /\ ~Provider.query.ok
    /\ KeywordIds # {}

(***************************************************************************)
(* Properties of re-ranking, checked under SpecAgent                       *)
(***************************************************************************)
\* the candidates _rerank was given by the last semantic search
Candidates ==
    search_similar(Self, Provider.query.embedding, agent.max_results,
                   agent.min_similarity_threshold).res

\* the last call was a semantic search that reached _rerank
RerankCalled ==
    /\ Mode("semantic") /\ agent.rerank_model # ""
    /\ Provider.query.ok /\ last.err = None

\* the cosine similarity the re-rank model gives the candidate id
RerankScore(id) ==
    SignedRoot(Dot(Provider.rerank_query.embedding, Provider.rerank_chunks[id].embedding),
               NormSq(Provider.rerank_query.embedding)
                 * NormSq(Provider.rerank_chunks[id].embedding))

\* C21: whichever candidates' embedding requests fail, _rerank returns the
\* candidates it was given, each once, with its similarity and metadata;
\* a candidate whose request failed is ranked by its original similarity,
\* every other candidate by its re-rank score, in descending order.
C21_RerankKeepsCandidates ==
    (RerankCalled /\ Provider.rerank_query.ok) =>
        /\ Len(Results) = Len(Candidates)
        /\ \A k \in 1..Len(Candidates) :
              \E i \in 1..Len(Results) :
                  /\ Results[i].id = Candidates[k].id
                  /\ Results[i].similarity = Candidates[k].similarity
                  /\ Results[i].metadata = Candidates[k].metadata
        /\ \A i \in 1..Len(Results) :
              Results[i].similarity_rerank =
                  IF Provider.rerank_chunks[Results[i].id].ok
                  THEN RerankScore(Results[i].id)
                  ELSE Results[i].similarity
        /\ \A i, j \in 1..Len(Results) :
              i < j => SimGE(Results[i].similarity_rerank, Results[j].similarity_rerank)

\* a re-ranking of two candidates: the request of the first failed, and it
\* is ranked by its original similarity above the second, which was found
\* with a greater similarity and re-scored lower
C21_Witness ==
    /\ RerankCalled /\ Provider.rerank_query.ok
    /\ Len(Results) = 2
    /\ ~Provider.rerank_chunks[Results[1].id].ok
    /\ Provider.rerank_chunks[Results[2].id].ok
    /\ SimGT(Results[2].similarity, Results[1].similarity)
    /\ SimGT(Results[1].similarity_rerank, Results[2].similarity_rerank)

\* C22: when the request for the query with the re-rank model fails,
\* _rerank requests no candidate's embedding and returns the candidates as
\* they were given: the same entries in the same order.
C22_RerankAbandoned ==
    (RerankCalled /\ ~Provider.rerank_query.ok) =>
        /\ Results = Candidates
        /\ last.out.calls = <<"query", "rerank_query">>

\* a re-ranking abandoned with two candidates of different similarity
C22_Witness ==
    /\ RerankCalled /\ ~Provider.rerank_query.ok
    /\ Len(Results) = 2
    /\ SimGT(Results[1].similarity, Results[2].similarity)

\* C23: a search task whose query is missing, empty or whitespace only
\* raises the invalid-argument error (ValueError) in every search mode,
\* with no request made to the provider and no result taken from the
\* index, whatever the index holds and whatever the provider would answer.
C23_BlankQueryRejected ==
    (/\ last.op = "search"
     /\ "type" \in task.keys /\ task.type = "search"
     /\ QueryOf(task) = <<>>) =>
        /\ last.err = "ValueError"
        /\ last.out.calls = <<>>
        /\ Results = <<>>
        /\ last.out.total_results = 0

\* a semantic search with a whitespace-only query, on an index that holds
\* entries, the provider ready to answer
C23_Witness ==
    /\ last.op = "search" /\ task.type = "search"
    /\ "query" \in task.keys /\ task.query = <<" ">>
    /\ SearchTypeOf(task) = "semantic"
    /\ Provider.query.ok
    /\ Len(vectors) = 2

\* a keyword search with a whitespace-only query, on an index that holds
\* entries with content
C23_KeywordBlank ==
    /\ last.op = "search" /\ task.type = "search"
    /\ "query" \in task.keys /\ task.query = <<"\n", " ">>
    /\ SearchTypeOf(task) = "keyword"
    /\ Len(metadata) = 2 /\ ContentOf(metadata[1][2]) # <<>>

(***************************************************************************)
(* Properties of concurrent requests, checked under SpecLoop               *)
(***************************************************************************)
\* coroutine c has entered a method of the index and has not left it
Inside(c) == loop.co[c].op # "idle" /\ loop.co[c].at = "call"

Observers == {"search_similar", "_keyword_search", "save_to_file"}

\* what the whole method makes of the index and the file it was entered with
Atomic(f) ==
    LET a == f.args
        db == f.entry
        On(r, fl, out) == [db |-> r.db, file |-> fl, out |-> out, err |-> r.err]
    IN  CASE f.op = "add_vector" ->
                On(add_vector(db, a[1], a[2], a[3]), f.entry_file, <<>>)
          [] f.op = "remove_vector" ->
                On(remove_vector(db, a[1]), f.entry_file, <<>>)
          [] f.op = "remove_by_metadata" ->
                On(remove_by_metadata(db, a[1], a[2]), f.entry_file, <<>>)
          [] f.op = "load_from_file" ->
                On(load_from_file(db, f.entry_file), f.entry_file, <<>>)
          [] f.op = "search_similar" ->
                LET r == search_similar(db, a[1], a[2], a[3])
                IN  On(Raised(db, r.err), f.entry_file, r.res)
          [] f.op = "_keyword_search" ->
                On(Returned(db), f.entry_file, _keyword_search(agent, db, a[1]).results)
          [] f.op = "save_to_file" ->
                On(Returned(db), save_to_file(db), <<>>)

\* the statement coroutine c is about to run is the one its method
\* returns from
Returning(c) == Inside(c) /\ Statement(agent, Self, file, loop.co[c]).returned

C24_PartEvicted ==
    \E c, d \in Coroutines :
        /\ loop.co[c].op = "remove_by_metadata" /\ loop.co[c].pc = 68
        /\ Len(loop.co[c].to_remove) = 1 /\ Len(metadata) = 1
        /\ loop.co[d].op = "search_similar" /\ loop.co[d].at = "await"

(***************************************************************************)
(* Properties of indexing, checked under SpecEmbed                         *)
(***************************************************************************)
\* the ids the index holds for a source, in the vector map and in the
\* metadata map
SourceIds(vs, ms, youtube_id) ==
    {ms[i][1] : i \in {j \in 1..Len(ms) :
                          MetaGet(ms[j][2], "youtube_id") = youtube_id}}
        \cup {vs[i][1] : i \in {j \in 1..Len(vs) :
                                   SubSeq(vs[j][1], 1, Len(youtube_id) + 1)
                                       = youtube_id \o <<"_">>}}

\* the ids of the passages of the create_embeddings task t
TaskIds(t) == {ChunkId(t.youtube_id, t.chunks[i]) : i \in 1..Len(t.chunks)}

\* C25 (as claimed): when a source that the index holds n passages of is
\* processed again and gives m < n passages, the provider answering every
\* request, the index afterwards holds for that source exactly the m new
\* ids, and none of the ids m .. n-1 of the earlier run.
C25_ReprocessingReplaces ==
    [][ (/\ last'.op = "embed_video_chunks" /\ last' # last
         /\ "chunks" \in task'.keys /\ task'.chunks # <<>>
         /\ \A i \in 1..Len(task'.chunks) :
               last'.args[1][task'.chunks[i].content].ok
         /\ Cardinality(SourceIds(vectors, metadata, task'.youtube_id))
                > Len(task'.chunks)) =>
            SourceIds(vectors', metadata', task'.youtube_id) = TaskIds(task') ]_vars

\* C26 (as claimed): a create_embeddings task with a non-empty chunk list,
\* the provider answering every request, does not fail, and afterwards the
\* index SearchAgent reads holds every passage of the task under the id
\* "{youtube_id}_{chunk_index}", with the passage's content in its metadata.
C26_PassagesReachTheIndex ==
    (/\ last.op = "embed_video_chunks"
     /\ "chunks" \in task.keys /\ task.chunks # <<>>
     /\ \A i \in 1..Len(task.chunks) : last.args[1][task.chunks[i].content].ok) =>
        /\ last.err = None
        /\ \A i \in 1..Len(task.chunks) :
              LET chunk_id == ChunkId(task.youtube_id, task.chunks[i])
              IN  /\ DictHas(vectors, chunk_id)
                  /\ DictHas(metadata, chunk_id)
                  /\ ContentOf(DictGet(metadata, chunk_id, EmptyMeta))
                         = task.chunks[i].content

(***************************************************************************)
(* The two maps of the index, checked under SpecFile                       *)
(***************************************************************************)
\* C27 (as claimed): in every state that calls of add_vector,
\* remove_vector, remove_by_metadata, clear and load_from_file reach, the
\* calls that raise included, the vector map and the metadata map hold the
\* same ids.
C27_SameIdsInBothMaps ==
    DictKeySet(vectors) = DictKeySet(metadata)

(***************************************************************************)
(* What chunking keeps of the transcript, checked under SpecChunk          *)
(***************************************************************************)
\* C28 (as claimed): a chunk_text task with a non-empty transcript completes
\* with at least one passage and with no passage of empty content, also for
\* a transcript longer than chunk_size that holds only separators or
\* whitespace; the average size is never a division by zero.
C28_AtLeastOnePassage ==
    (Chunked /\ "transcript" \in task.keys /\ task.transcript # <<>>) =>
        /\ last.err = None
        /\ Len(Passages) >= 1
        /\ \A i \in 1..Len(Passages) : Passages[i] # <<>>

\* the characters the separators are made of
SeparatorChars ==
    UNION {{chunker.separators[k][j] : j \in 1..Len(chunker.separators[k])} :
              k \in 1..Len(chunker.separators)}

\* position i of the text lies in an occurrence of a separator
InSeparator(text, i) ==
    \E k \in 1..Len(chunker.separators) :
        LET sep == chunker.separators[k] IN
        \E j \in 1..i : /\ j + Len(sep) - 1 >= i
                        /\ j + Len(sep) - 1 <= Len(text)
                        /\ SubSeq(text, j, j + Len(sep) - 1) = sep

\* the units of the text: the maximal runs of characters that lie in no
\* occurrence of a separator, in the order of the text
RECURSIVE UnitsFrom(_, _, _, _)
UnitsFrom(text, i, unit, units) ==
    IF i > Len(text) THEN (IF unit = <<>> THEN units ELSE Append(units, unit))
    ELSE IF InSeparator(text, i)
    THEN UnitsFrom(text, i + 1, <<>>, IF unit = <<>> THEN units ELSE Append(units, unit))
    ELSE UnitsFrom(text, i + 1, Append(unit, text[i]), units)

Units(text) == UnitsFrom(text, 1, <<>>, <<>>)

\* the units from the u-th on appear inside the passages from the k-th on,
\* in order
RECURSIVE AppearInOrder(_, _, _, _)
AppearInOrder(units, passages, u, k) ==
    \/ u > Len(units)
    \/ \E n \in k..Len(passages) :
          /\ Contains(passages[n], units[u])
          /\ \A n2 \in k..(n - 1) : ~Contains(passages[n2], units[u])
          /\ AppearInOrder(units, passages, u + 1, n)

\* the characters of the text that are no separator characters
Kept(text) == SelectSeq(text, LAMBDA c : c \notin SeparatorChars)

\* how far into the kept characters t the passages from the i-th on can
\* reach, each laid over t where it matches, beginning no later than where
\* the earlier ones ended and ending no earlier
RECURSIVE Reach(_, _, _, _)
Reach(t, passages, i, ends) ==
    IF i > Len(passages) THEN ends
    ELSE LET p == Kept(passages[i])
         IN  Reach(t, passages, i + 1,
                   {b + Len(p) : b \in {b \in 0..(Len(t) - Len(p)) :
                        /\ SubSeq(t, b + 1, b + Len(p)) = p
                        /\ \E e \in ends : b <= e /\ b + Len(p) >= e}})

\* laid end to end, with what they repeat of each other removed, the
\* passages give the kept characters of the text
Reconstructs(text, passages) ==
    Len(Kept(text)) \in Reach(Kept(text), passages, 1, {0})

SlicesWithinWindow ==
    \A i \in 1..Len(splitting.chunks) :
        /\ Len(splitting.chunks[i]) >= 1
        /\ Len(splitting.chunks[i]) <= chunker.chunk_size

\* the call has returned: its slices are those of the whole method, and
\* the last one ends where the text ends
ReturnedSlices ==
    ~splitting.running =>
        /\ splitting.chunks = _split_by_characters(chunker, splitting.text)
        /\ splitting.text # <<>> =>
              /\ splitting.chunks # <<>>
              /\ LastChars(splitting.text,
                           Len(splitting.chunks[Len(splitting.chunks)]))
                     = splitting.chunks[Len(splitting.chunks)]
                /\ splitting.start + Len(splitting.chunks[Len(splitting.chunks)])
                     = Len(splitting.text)

\* C30: for every text and every configuration with chunk_size > 0 and
\* 0 <= chunk_overlap < chunk_size, _split_by_characters terminates; every
\* iteration that does not leave the loop moves the window start strictly
\* forward; each emitted slice is non-empty and at most chunk_size
\* characters long; the last slice ends at the end of the text.
C30_FallbackTerminates ==
    /\ [](SlicesWithinWindow /\ ReturnedSlices)
    /\ [][ splitting'.running => splitting'.start > splitting.start ]_vars
    /\ <>(~splitting.running)

\* the call has returned three slices of a text with blanks, the window
\* having been cut back to a blank and moved back by the overlap
C30_Witness ==
    /\ ~splitting.running
    /\ Len(splitting.chunks) >= 3
    /\ chunker.chunk_overlap > 0
    /\ \E i \in 1..(Len(splitting.chunks) - 1) :
          Len(splitting.chunks[i]) < chunker.chunk_size
    /\ splitting.start > 0

====
